---------------------------- MODULE Spec2Model ----------------------------
(***************************************************************************)
(* Sea Battle (Telegram bot + HTTP API): one game session of the `games`   *)
(* dictionary, its two players, the asyncio handlers of bot.py and the     *)
(* Flask handlers that act on it, with the rules of game_logic.py.         *)
(***************************************************************************)
EXTENDS Integers, Sequences, FiniteSets, TLC

(***************************************************************************)
(* Bounds of the exploration.                                              *)
(***************************************************************************)
\* seeds of the random generator tried by auto placement: 0..MaxSeed
MaxSeed == 0
\* coordinates a user sends with an attack: 0..MaxCoord
MaxCoord == 1
\* coordinates a user sends with a click on their own board: 0..MaxClick
MaxClick == 2
\* number of attacks explored in one session
MaxAttacks == 2
\* number of aimed attacks explored in one session
MaxBattleAttacks == 7
\* number of mode, timer and placement operations explored once the battle
\* has started
MaxLateOps == 1
\* number of mode selections explored in one session
MaxConfigOps == 1
\* number of timer selections explored in one session
MaxTimerOps == 1
\* number of manual placement operations explored in one session
MaxManualOps == 2
\* number of auto placements explored in one session
MaxAutoOps == 2
\* number of clock advances explored in one session
MaxTicks == 2
\* side of the small boards on which the placement rules are examined
MaxProbeSize == 3
\* largest ship size tried on the examined boards
MaxProbeShip == 3
\* rounds of cleanup_old_games explored
MaxSweeps == 2
\* the draws offered to auto_place_ships lie up to this many cells down and
\* right of the ships of a known layout
MaxShift == 1
\* nested calls of auto_place_ships the recursion limit of the interpreter
\* leaves room for (sys.getrecursionlimit() is 1000 when Python starts)
MaxDepth == 2

(***************************************************************************)
(* Cell symbols of game_logic.py.                                          *)
(***************************************************************************)
Empty == "Empty"   \* '🌊'
Ship  == "Ship"    \* '🟥'
Hit   == "Hit"     \* '🔥'
Sunk  == "Sunk"    \* '❌'
Miss  == "Miss"    \* '⚫'

None == "None"
PlayerIds == {"p1", "p2"}

GAME_MODES ==
  [classic |-> [size |-> 8,  ships |-> <<3, 3, 2, 2, 1, 1, 1, 1>>],
   fast    |-> [size |-> 6,  ships |-> <<3, 2, 1, 1>>],
   full    |-> [size |-> 10, ships |-> <<4, 3, 3, 2, 2, 2, 1, 1, 1, 1>>]]

get_ship_config(m) == GAME_MODES[m]

create_empty_board(size) == [rc \in (0..(size - 1)) \X (0..(size - 1)) |-> Empty]

create_empty_attacks(size) == [rc \in (0..(size - 1)) \X (0..(size - 1)) |-> Empty]

\* the other slot of the session
OtherId(pid) == IF pid = "p1" THEN "p2" ELSE "p1"

\* the eight neighbour offsets and the cell itself, in the order of the
\* nested loops `for dr in [-1,0,1]: for dc in [-1,0,1]`
Offsets == << <<-1, -1>>, <<-1, 0>>, <<-1, 1>>, <<0, -1>>, <<0, 0>>, <<0, 1>>,
              <<1, -1>>, <<1, 0>>, <<1, 1>> >>

InRange(r, c, size) == 0 <= r /\ r < size /\ 0 <= c /\ c < size

\* cells of a ship of ship_size cells whose first cell is (row, col)
ShipCells(row, col, ship_size, horizontal) ==
  [i \in 1..ship_size |-> IF horizontal THEN <<row, col + i - 1>>
                                         ELSE <<row + i - 1, col>>]

SeqToSet(s) == {s[i] : i \in 1..Len(s)}

\* the cells read by the loops of validate_ship_placement and by the
\* neighbour loop of attack_cell, in the order they are read: for every cell
\* of the ship the nine offsets that stay inside size x size
NeighbourProbes(cells, size) ==
  LET at(k) == LET cell == cells[((k - 1) \div 9) + 1]
                   off  == Offsets[((k - 1) % 9) + 1]
               IN <<cell[1] + off[1], cell[2] + off[2]>>
      all == [k \in 1..(9 * Len(cells)) |-> at(k)]
  IN SelectSeq(all, LAMBDA p : InRange(p[1], p[2], size))

\* validate_ship_placement with the neighbour loops reduced to the four
\* orthogonal neighbours
validate_orthogonal(board, size, row, col, ship_size, horizontal) ==
  LET cells == ShipCells(row, col, ship_size, horizontal)
      fits  == /\ (IF horizontal THEN col + ship_size <= size
                                 ELSE row + ship_size <= size)
               /\ \A i \in 1..ship_size : InRange(cells[i][1], cells[i][2], size)
      near  == {p \in DOMAIN board :
                  \E i \in 1..ship_size :
                     \/ p = cells[i]
                     \/ (p[1] = cells[i][1] /\ p[2] - cells[i][2] \in {-1, 1})
                     \/ (p[2] = cells[i][2] /\ p[1] - cells[i][1] \in {-1, 1})}
  IN IF ~fits THEN "False"
     ELSE IF \E p \in near : board[p] = Ship THEN "False"
     ELSE "True"

\* validate_ship_placement: TRUE / FALSE, or "IndexError" when a read falls
\* outside the grid the board really has
validate_ship_placement(board, size, row, col, ship_size, horizontal) ==
  LET cells == ShipCells(row, col, ship_size, horizontal)
      fits  == /\ (IF horizontal THEN col + ship_size <= size
                                 ELSE row + ship_size <= size)
               /\ \A i \in 1..ship_size : InRange(cells[i][1], cells[i][2], size)
      probes == NeighbourProbes(cells, size)
      bad == {k \in 1..Len(probes) :
                 probes[k] \notin DOMAIN board \/ board[probes[k]] = Ship}
      first == CHOOSE k \in bad : \A j \in bad : k <= j
  IN IF ~fits THEN "False"
     ELSE IF bad = {} THEN "True"
     ELSE IF probes[first] \notin DOMAIN board THEN "IndexError"
     ELSE "False"

\* place_ship marking only the first cell of the ship on the board
place_ship_head(board, row, col, ship_size, horizontal) ==
  [board |-> [rc \in DOMAIN board |-> IF rc = <<row, col>> THEN Ship ELSE board[rc]],
   cells |-> ShipCells(row, col, ship_size, horizontal)]

\* place_ship: the board with the ship's cells marked, and the cell list
place_ship(board, row, col, ship_size, horizontal) ==
  LET cells == ShipCells(row, col, ship_size, horizontal)
  IN [board |-> [rc \in DOMAIN board |->
                    IF rc \in SeqToSet(cells) THEN Ship ELSE board[rc]],
      cells |-> cells]

NewShip(ship_size, cells) == [size |-> ship_size, cells |-> cells, destroyed |-> FALSE]

(***************************************************************************)
(* The random module as auto_place_ships uses it.  The generator is a      *)
(* fixed sequence of draws chosen by a seed; shuffle, choice and randint   *)
(* consume it as CPython's random.shuffle (Fisher-Yates from the last      *)
(* index down), random.choice and random.randint do.                       *)
(***************************************************************************)
Rand(seed, k) == (11 * (seed + 1) * k + 5 * k * k + 7 * seed) % 37

randbelow(seed, k, n) == Rand(seed, k) % n

Swap(x, i, j) == [x EXCEPT ![i] = x[j], ![j] = x[i]]

\* random.shuffle(x) with draws k0+1 .. k0+Len(x)-1; d counts the draws made
RECURSIVE Shuffle(_, _, _, _)
Shuffle(x, d, seed, k0) ==
  IF d > Len(x) - 1 THEN x
  ELSE LET i == Len(x) - d          \* 0-based index i of the Python loop
           j == randbelow(seed, k0 + d, i + 1)
       IN Shuffle(Swap(x, i + 1, j + 1), d + 1, seed, k0)

\* auto_place_ships(mode), started after k0 draws: the shuffled fleet is
\* placed ship by ship, at most 100 attempts each, and the whole function
\* restarts itself when a ship could not be placed
RECURSIVE auto_place_from(_, _, _)
RECURSIVE PlaceLoop(_, _, _, _, _, _, _, _)
PlaceLoop(m, seed, order, idx, attempts, board, ships, k) ==
  LET size == get_ship_config(m).size IN
  IF idx > Len(order) THEN [board |-> board, ships |-> ships]
  ELSE IF attempts >= 100 THEN auto_place_from(m, seed, k)
  ELSE
    LET ship_size  == order[idx]
        horizontal == (randbelow(seed, k + 1, 2) = 0)
        row == IF horizontal THEN randbelow(seed, k + 2, size)
                             ELSE randbelow(seed, k + 2, size - ship_size + 1)
        col == IF horizontal THEN randbelow(seed, k + 3, size - ship_size + 1)
                             ELSE randbelow(seed, k + 3, size)
    IN IF validate_ship_placement(board, size, row, col, ship_size, horizontal) = "True"
       THEN LET placed == place_ship(board, row, col, ship_size, horizontal)
            IN PlaceLoop(m, seed, order, idx + 1, 0, placed.board,
                         Append(ships, NewShip(ship_size, placed.cells)), k + 3)
       ELSE PlaceLoop(m, seed, order, idx, attempts + 1, board, ships, k + 3)

auto_place_from(m, seed, k0) ==
  LET config == get_ship_config(m)
      order  == Shuffle(config.ships, 1, seed, k0)
  IN PlaceLoop(m, seed, order, 1, 0, create_empty_board(config.size), <<>>,
               k0 + Len(config.ships) - 1)

auto_place_ships(m, seed) == auto_place_from(m, seed, 0)

Modes == {"classic", "fast", "full"}

\* the layouts the explored seeds produce, computed once
AutoLayouts == [m \in Modes, seed \in 0..MaxSeed |-> auto_place_ships(m, seed)]

(***************************************************************************)
(* Players (models.Player) and the attack rules of game_logic.py.          *)
(***************************************************************************)
NoMove == <<-1, -1>>     \* last_enemy_move = None

\* a slot of GameState.players that holds None
NoPlayer ==
  [present |-> FALSE, user_id |-> 0, ready |-> FALSE,
   board |-> create_empty_board(0), attacks |-> create_empty_attacks(0),
   ships |-> <<>>,
   current_ship_row |-> 0, current_ship_col |-> 0,
   current_ship_horizontal |-> TRUE,
   last_enemy_move |-> NoMove, last_enemy_move_was_miss |-> FALSE]

\* Player(user_id=..., board=create_empty_board(size), attacks=..., ships=[])
NewPlayer(uid, size) ==
  [NoPlayer EXCEPT !.present = TRUE, !.user_id = uid,
                   !.board = create_empty_board(size),
                   !.attacks = create_empty_attacks(size)]

\* get_ship_at_cell: index of the first ship whose cells contain (row, col),
\* 0 for None
get_ship_at_cell(ships, row, col) ==
  LET holds == {i \in 1..Len(ships) : <<row, col>> \in SeqToSet(ships[i].cells)}
  IN IF holds = {} THEN 0 ELSE CHOOSE i \in holds : \A j \in holds : i <= j

\* check_ship_destroyed: the cells are read in order; the first one that is
\* not '🔥' answers False, a cell outside the board raises IndexError
check_ship_destroyed(ship, board) ==
  LET bad == {i \in 1..Len(ship.cells) :
                 ship.cells[i] \notin DOMAIN board \/ board[ship.cells[i]] # Hit}
      first == CHOOSE i \in bad : \A j \in bad : i <= j
  IN IF bad = {} THEN "True"
     ELSE IF ship.cells[first] \notin DOMAIN board THEN "IndexError"
     ELSE "False"

\* attack_cell lines 203-205: every cell of the sunk ship becomes '❌' on the
\* attacker's tracking grid and on the defender's board, in order
RECURSIVE MarkSunk(_, _, _, _)
MarkSunk(att, brd, cells, i) ==
  IF i > Len(cells) THEN [attacks |-> att, board |-> brd, raised |-> FALSE]
  ELSE IF cells[i] \notin DOMAIN att
       THEN [attacks |-> att, board |-> brd, raised |-> TRUE]
  ELSE LET att2 == [att EXCEPT ![cells[i]] = Sunk] IN
       IF cells[i] \notin DOMAIN brd
       THEN [attacks |-> att2, board |-> brd, raised |-> TRUE]
       ELSE MarkSunk(att2, [brd EXCEPT ![cells[i]] = Sunk], cells, i + 1)

\* attack_cell lines 208-219: every neighbour of the sunk ship inside the
\* mode's size that is not a cell of the ship turns from '🌊' to '⚫'
RECURSIVE MarkAround(_, _, _, _)
MarkAround(att, brd, probes, i) ==
  IF i > Len(probes) THEN [attacks |-> att, board |-> brd, raised |-> FALSE]
  ELSE IF probes[i] \notin DOMAIN att
       THEN [attacks |-> att, board |-> brd, raised |-> TRUE]
  ELSE LET att2 == IF att[probes[i]] = Empty
                   THEN [att EXCEPT ![probes[i]] = Miss] ELSE att IN
       IF probes[i] \notin DOMAIN brd
       THEN [attacks |-> att2, board |-> brd, raised |-> TRUE]
       ELSE MarkAround(att2,
                       IF brd[probes[i]] = Empty
                       THEN [brd EXCEPT ![probes[i]] = Miss] ELSE brd,
                       probes, i + 1)

\* all_destroyed with `any` in the place of `all`
any_destroyed(ships) == \E i \in 1..Len(ships) : ships[i].destroyed

\* attack_cell line 222: all(s['destroyed'] for s in defender.ships)
all_destroyed(ships) == \A i \in 1..Len(ships) : ships[i].destroyed

\* attack_cell(game, attacker_id, row, col).  P is game.players, m game.mode,
\* w game.winner.  The answer holds the kind of result (an error, "miss",
\* "hit", "sunk", or "IndexError" when a list access raises), the players and
\* the winner as the call leaves them, and the index of the ship it reports.
attack_cell(P, m, w, attacker_id, row, col) ==
  LET defender_id == OtherId(attacker_id)
      attacker == P[attacker_id]
      defender == P[defender_id]
      size == get_ship_config(m).size
      rc == <<row, col>>
      Answer(kind, a, d, win, si) ==
        [kind |-> kind,
         players |-> [P EXCEPT ![attacker_id] = a, ![defender_id] = d],
         winner |-> win, ship |-> si]
  IN
  IF ~attacker.present \/ ~defender.present
    THEN Answer("error_no_player", attacker, defender, w, 0)
  ELSE IF ~InRange(row, col, size)
    THEN Answer("error_out_of_bounds", attacker, defender, w, 0)
  ELSE IF rc \notin DOMAIN attacker.attacks
    THEN Answer("IndexError", attacker, defender, w, 0)
  ELSE IF attacker.attacks[rc] \in {Miss, Hit, Sunk}
    THEN Answer("error_already_attacked", attacker, defender, w, 0)
  ELSE IF rc \notin DOMAIN defender.board
    THEN Answer("IndexError", attacker, defender, w, 0)
  ELSE IF defender.board[rc] = Ship
    THEN
      LET a1 == [attacker EXCEPT !.attacks[rc] = Hit]
          d1 == [defender EXCEPT !.last_enemy_move = NoMove,
                                 !.last_enemy_move_was_miss = FALSE,
                                 !.board[rc] = Hit]
          si == get_ship_at_cell(d1.ships, row, col)
      IN
      IF si = 0 THEN Answer("hit", a1, d1, w, 0)
      ELSE
        LET ship == d1.ships[si]
            ship_destroyed == check_ship_destroyed(ship, d1.board)
        IN
        IF ship_destroyed = "IndexError" THEN Answer("IndexError", a1, d1, w, si)
        ELSE IF ship_destroyed = "False" THEN Answer("hit", a1, d1, w, 0)
        ELSE
          LET ships2 == [d1.ships EXCEPT ![si].destroyed = TRUE]
              m1 == MarkSunk(a1.attacks, d1.board, ship.cells, 1)
              around == SelectSeq(NeighbourProbes(ship.cells, size),
                                  LAMBDA p : p \notin SeqToSet(ship.cells))
              m2 == IF m1.raised THEN m1
                    ELSE MarkAround(m1.attacks, m1.board, around, 1)
              a2 == [a1 EXCEPT !.attacks = m2.attacks]
              d2 == [d1 EXCEPT !.board = m2.board, !.ships = ships2]
          IN
          IF m2.raised THEN Answer("IndexError", a2, d2, w, si)
          ELSE Answer("sunk", a2, d2,
                      IF all_destroyed(ships2) THEN attacker_id ELSE w, si)
  ELSE
    LET a1 == [attacker EXCEPT !.attacks[rc] = Miss]
        d1 == [defender EXCEPT
                 !.board[rc] = IF defender.board[rc] = Empty THEN Miss
                               ELSE defender.board[rc],
                 !.last_enemy_move = rc,
                 !.last_enemy_move_was_miss = TRUE]
    IN Answer("miss", a1, d1, w, 0)

\* the attack was carried out (no error answer)
Accepted(kind) == kind \in {"miss", "hit", "sunk"}

\* the answers {'error': ...} of attack_cell
ErrorKinds == {"error_no_player", "error_out_of_bounds", "error_already_attacked"}

(***************************************************************************)
(* The session: the fields of models.GameState, its place in the `games`   *)
(* dictionary of bot.py, the handlers suspended at an await, the timer     *)
(* task, the clock, and the history the properties speak about.            *)
(***************************************************************************)
VARIABLES
  mode,            \* game.mode
  is_timed,        \* game.is_timed
  time_limit,      \* game.time_limit
  players,         \* game.players: p1, p2
  current_player,  \* game.current_player: None, "p1", "p2"
  winner,          \* game.winner: None, "p1", "p2"
  surrendered,     \* game.surrendered: None, "p1", "p2", or "True"
  last_move_time,  \* game.last_move_time
  in_games,        \* game.id in games
  timer_task,      \* an update_timer_task of the session is running
  pending,         \* continuations of handlers suspended at an await
  now,             \* datetime.now().timestamp(), seconds since creation
  used,            \* operations consumed of each explored budget
  accepted,        \* history: <<attacker, row, col>> of every accepted attack
  last_attack,     \* history: the last accepted attack and its answer
  owes,            \* history: players whose miss has not yet passed the turn
  finish,          \* history: how the session got finished
  turn_start,      \* history: time the running turn started
  call,            \* a call of a function examined on its own, with its answer
  rooms,           \* room_manager.rooms: roomCode -> room
  room_by_game_id, \* room_manager.room_by_game_id: gameId -> roomCode
  game_manager     \* room_manager.game_manager: None, or a dict by its keys

vars == <<mode, is_timed, time_limit, players, current_player, winner,
          surrendered, last_move_time, in_games, timer_task, pending, now,
          used, accepted, last_attack, owes, finish, turn_start, call,
          rooms, room_by_game_id, game_manager>>

\* the fields of the RoomManager instance
room_vars == <<rooms, room_by_game_id, game_manager>>

\* the session and its history, without the examined call
session_vars == <<mode, is_timed, time_limit, players, current_player, winner,
                  surrendered, last_move_time, in_games, timer_task, pending,
                  now, used, accepted, last_attack, owes, finish, turn_start,
                  rooms, room_by_game_id, game_manager>>

game_vars == <<mode, is_timed, time_limit, players, current_player, winner,
               surrendered, last_move_time>>

history_vars == <<accepted, last_attack, owes, finish, turn_start>>

NoTime == -1             \* last_move_time = None

\* the two Telegram users of the session: the creator and the one who joins
CREATOR == 1
JOINER == 2
Users == {CREATOR, JOINER}

\* per-turn limits written by callback_timer
FAST_TIME_LIMIT == 60
\* the ages cleanup_old_games compares created_at with: 1 hour, 24 hours
SWEEP_HOUR == 3600
SWEEP_DAY == 86400
DEFAULT_TIME_LIMIT == 120

\* the limit callback_timer takes for a mode
ModeTimeLimit(m) == IF m = "fast" THEN FAST_TIME_LIMIT ELSE DEFAULT_TIME_LIMIT

Coords == 0..MaxCoord
\* the same with a coordinate before the board and one past the board of
\* every mode
AnyCoords == Coords \cup {-1, GAME_MODES.full.size}
ClickCoords == 0..MaxClick
Seeds == 0..MaxSeed

\* GameState.get_opponent / get_player
get_opponent(player_id) == players[OtherId(player_id)]
get_player(player_id) == players[player_id]

\* GameState.is_ready_to_start
is_ready_to_start ==
  /\ players["p1"].present /\ players["p1"].ready
  /\ players["p2"].present /\ players["p2"].ready

\* check_game_over(game)
check_game_over == winner # None \/ surrendered # None

\* get_game_by_user: the slot of the user in the session, None if the
\* session is not in `games` or the user plays in neither slot
get_game_by_user(u) ==
  IF ~in_games THEN None
  ELSE IF players["p1"].present /\ players["p1"].user_id = u THEN "p1"
  ELSE IF players["p2"].present /\ players["p2"].user_id = u THEN "p2"
  ELSE None

\* end_game(game) gets past its two early returns
EndGameRuns(w) ==
  /\ w # None
  /\ players["p1"].present /\ players["p2"].present

NoAttack == [n |-> 0, by |-> None, kind |-> None, ship |-> 0]

NoFinish == [cause |-> None, via |-> None, who |-> None]

NoCall == [fn |-> None]

\* GameState(id=..., mode=m, is_timed=timed) with the creator as p1 on empty
\* grids of the mode's size, put into `games`
Created(m, timed) ==
  /\ mode = m
  /\ is_timed = timed
  /\ time_limit = 0
  /\ players = [p1 |-> NewPlayer(CREATOR, get_ship_config(m).size),
                p2 |-> NoPlayer]
  /\ current_player = None
  /\ winner = None
  /\ surrendered = None
  /\ last_move_time = NoTime
  /\ in_games = TRUE
  /\ timer_task = FALSE
  /\ pending = {}
  /\ now = 0
  /\ used = [config |-> 0, timer |-> 0, manual |-> 0, auto |-> 0,
             attacks |-> 0, aimed |-> 0, ticks |-> 0, late |-> 0, sweeps |-> 0]
  /\ accepted = {}
  /\ last_attack = NoAttack
  /\ owes = {}
  /\ finish = NoFinish
  /\ turn_start = 0
  /\ call = NoCall
  /\ rooms = <<>>
  /\ room_by_game_id = <<>>
  /\ game_manager = [given |-> FALSE, keys |-> {}]

\* cmd_play: a classic, untimed session
Init == Created("classic", FALSE)

\* api_create_game with mode 'fast' and no timer
InitFast == Created("fast", FALSE)

\* api_create_game with mode 'full' and no timer
InitFull == Created("full", FALSE)

(***************************************************************************)
(* Lobby: joining, mode and timer selection.                               *)
(***************************************************************************)
\* cmd_start with a join link: the second player takes the free slot
cmd_start_join(u) ==
  /\ in_games
  /\ ~players["p2"].present
  /\ ~(players["p1"].present /\ players["p1"].user_id = u)
  /\ players' = [players EXCEPT
                   !["p2"] = NewPlayer(u, get_ship_config(mode).size)]
  /\ UNCHANGED <<mode, is_timed, time_limit, current_player, winner,
                 surrendered, last_move_time, in_games, timer_task, pending,
                 now>>
  /\ UNCHANGED history_vars

\* api_join_game: the user named in the request takes the free slot; the
\* request is not compared with the creator
api_join_game(u) ==
  /\ in_games
  /\ ~players["p2"].present
  /\ players' = [players EXCEPT
                   !["p2"] = NewPlayer(u, get_ship_config(mode).size)]
  /\ UNCHANGED <<mode, is_timed, time_limit, current_player, winner,
                 surrendered, last_move_time, in_games, timer_task, pending,
                 now>>
  /\ UNCHANGED history_vars

\* callback_mode: the creator picks a mode; the grids of p1 are replaced by empty
\* ones of the new size, the fleet of p1 is kept
callback_mode(u, m) ==
  /\ get_game_by_user(u) = "p1"
  /\ mode' = m
  /\ players' = [players EXCEPT
                   !["p1"].board = create_empty_board(get_ship_config(m).size),
                   !["p1"].attacks = create_empty_attacks(get_ship_config(m).size)]
  /\ UNCHANGED <<is_timed, time_limit, current_player, winner, surrendered,
                 last_move_time, in_games, timer_task, pending, now>>
  /\ UNCHANGED history_vars

\* callback_timer: the creator switches the timer; the limit is taken from
\* the mode the session has at this moment
callback_timer(u, choice) ==
  /\ get_game_by_user(u) = "p1"
  /\ is_timed' = (choice = "yes")
  /\ time_limit' = IF choice = "yes" THEN ModeTimeLimit(mode) ELSE time_limit
  /\ UNCHANGED <<mode, players, current_player, winner, surrendered,
                 last_move_time, in_games, timer_task, pending, now>>
  /\ UNCHANGED history_vars

(***************************************************************************)
(* Placement of the fleet.  None of these handlers looks at the phase.     *)
(***************************************************************************)
Count(seq, x) == Cardinality({i \in 1..Len(seq) : seq[i] = x})

Sizes(ships) == [i \in 1..Len(ships) |-> ships[i].size]

\* the first size of the mode's fleet of which the player has placed fewer
\* ships than the fleet holds; 0 when there is none (ship_size is None)
NextShipSize(m, ships) ==
  LET expected == get_ship_config(m).ships
      short == {i \in 1..Len(expected) :
                  Count(Sizes(ships), expected[i]) < Count(expected, expected[i])}
  IN IF short = {} THEN 0
     ELSE expected[CHOOSE i \in short : \A j \in short : i <= j]

\* the handler goes on to place or move a ship: the fleet is not complete
\* and a size is missing
Placing(m, ships) ==
  /\ Len(ships) < Len(get_ship_config(m).ships)
  /\ NextShipSize(m, ships) # 0

SetCursor(p, row, col, horizontal) ==
  [p EXCEPT !.current_ship_row = row, !.current_ship_col = col,
            !.current_ship_horizontal = horizontal]

Max(a, b) == IF a >= b THEN a ELSE b
Min(a, b) == IF a <= b THEN a ELSE b

\* callback_auto_place: a fresh board and fleet, the cursor back at (0, 0)
AutoPlaced(p, m, seed) ==
  SetCursor([p EXCEPT !.board = AutoLayouts[m, seed].board,
                      !.ships = AutoLayouts[m, seed].ships], 0, 0, TRUE)

\* callback_move_left / right / up / down and callback_rotate: the cursor of
\* the ship being placed, kept inside the board of the mode
MovedLeft(p, m) ==
  IF Placing(m, p.ships) /\ p.current_ship_col > 0
  THEN [p EXCEPT !.current_ship_col = @ - 1] ELSE p

MovedRight(p, m) ==
  LET size == get_ship_config(m).size
      max_col == IF p.current_ship_horizontal
                 THEN size - NextShipSize(m, p.ships) ELSE size - 1
  IN IF Placing(m, p.ships) /\ p.current_ship_col < max_col
     THEN [p EXCEPT !.current_ship_col = @ + 1] ELSE p

\* callback_move_up does not compute the size of the ship
MovedUp(p, m) ==
  IF Len(p.ships) < Len(get_ship_config(m).ships) /\ p.current_ship_row > 0
  THEN [p EXCEPT !.current_ship_row = @ - 1] ELSE p

MovedDown(p, m) ==
  LET size == get_ship_config(m).size
      max_row == IF p.current_ship_horizontal
                 THEN size - 1 ELSE size - NextShipSize(m, p.ships)
  IN IF Placing(m, p.ships) /\ p.current_ship_row < max_row
     THEN [p EXCEPT !.current_ship_row = @ + 1] ELSE p

Rotated(p, m) ==
  LET size == get_ship_config(m).size
      ship_size == NextShipSize(m, p.ships)
      horizontal == ~p.current_ship_horizontal
  IN IF ~Placing(m, p.ships) THEN p
     ELSE IF horizontal
     THEN [p EXCEPT !.current_ship_horizontal = horizontal,
                    !.current_ship_col =
                       IF @ + ship_size > size THEN Max(0, size - ship_size) ELSE @]
     ELSE [p EXCEPT !.current_ship_horizontal = horizontal,
                    !.current_ship_row =
                       IF @ + ship_size > size THEN Max(0, size - ship_size) ELSE @]

\* callback_place_ship: the next missing ship is put at the cursor when
\* validate_ship_placement accepts it on the player's board
ShipPlaced(p, m) ==
  LET size == get_ship_config(m).size
      ship_size == NextShipSize(m, p.ships)
      placed == place_ship(p.board, p.current_ship_row, p.current_ship_col,
                           ship_size, p.current_ship_horizontal)
  IN IF ~Placing(m, p.ships) THEN p
     ELSE IF validate_ship_placement(p.board, size, p.current_ship_row,
                p.current_ship_col, ship_size, p.current_ship_horizontal) # "True"
       THEN p
     ELSE SetCursor([p EXCEPT !.board = placed.board,
                              !.ships = Append(@, NewShip(ship_size, placed.cells))],
                    0, 0, TRUE)

\* callback_edit_placement: a complete fleet is cleared
PlacementReset(p, m) ==
  IF Len(p.ships) >= Len(get_ship_config(m).ships)
  THEN SetCursor([p EXCEPT !.board = create_empty_board(get_ship_config(m).size),
                           !.ships = <<>>], 0, 0, TRUE)
  ELSE p

RemoveAt(seq, i) == [j \in 1..(Len(seq) - 1) |-> IF j < i THEN seq[j] ELSE seq[j + 1]]

\* callback_setup_cell lines 2027-2031: the cells of the removed ship that lie
\* inside the mode's size are set to '🌊' in order; raised when one of them
\* is outside the board the player has
RECURSIVE ClearCells(_, _, _, _)
ClearCells(board, cells, size, i) ==
  IF i > Len(cells) THEN [board |-> board, raised |-> FALSE]
  ELSE IF ~InRange(cells[i][1], cells[i][2], size)
       THEN ClearCells(board, cells, size, i + 1)
  ELSE IF cells[i] \notin DOMAIN board THEN [board |-> board, raised |-> TRUE]
  ELSE ClearCells([board EXCEPT ![cells[i]] = Empty], cells, size, i + 1)

\* callback_setup_cell lines 2064-2107: the start positions tried for one
\* orientation, in order; the answer is the first position that validates
\* (found), none, or raised when validate_ship_placement raises first
TryOrientation(board, size, row, col, ship_size, horizontal) ==
  LET x == IF horizontal THEN col ELSE row
      lo == Max(0, x - ship_size + 1)
      hi == Min(size - ship_size + 1, x + 1) - 1
      check(st) == IF horizontal
                   THEN validate_ship_placement(board, size, row, st, ship_size, TRUE)
                   ELSE validate_ship_placement(board, size, st, col, ship_size, FALSE)
      stop == {st \in lo..hi : check(st) # "False"}
      first == CHOOSE st \in stop : \A o \in stop : st <= o
  IN IF stop = {} THEN [found |-> FALSE, raised |-> FALSE, start |-> 0]
     ELSE IF check(first) = "IndexError"
       THEN [found |-> FALSE, raised |-> TRUE, start |-> 0]
     ELSE [found |-> TRUE, raised |-> FALSE, start |-> first]

\* callback_setup_cell: a click on a cell of one of the player's ships removes
\* the first such ship; a click elsewhere moves the cursor of the ship being
\* placed
CellClicked(p, m, row, col) ==
  LET size == get_ship_config(m).size
      si == get_ship_at_cell(p.ships, row, col)
      cleared == ClearCells(p.board, p.ships[si].cells, size, 1)
      ship_size == NextShipSize(m, p.ships)
      t1 == TryOrientation(p.board, size, row, col, ship_size,
                           p.current_ship_horizontal)
      t2 == TryOrientation(p.board, size, row, col, ship_size,
                           ~p.current_ship_horizontal)
      Found(t, horizontal) ==
        IF horizontal THEN SetCursor(p, row, t.start, TRUE)
                      ELSE SetCursor(p, t.start, col, FALSE)
  IN IF si # 0
       THEN IF cleared.raised THEN [p EXCEPT !.board = cleared.board]
            ELSE [p EXCEPT !.board = cleared.board, !.ships = RemoveAt(@, si)]
     ELSE IF ~Placing(m, p.ships) THEN p
     ELSE IF t1.raised THEN p
     ELSE IF t1.found THEN Found(t1, p.current_ship_horizontal)
     ELSE IF t2.raised THEN p
     ELSE IF t2.found THEN Found(t2, ~p.current_ship_horizontal)
     ELSE [p EXCEPT !.current_ship_row = row, !.current_ship_col = col]

\* a placement handler of user u that leaves the player of u as `after`
PlacementStep(u, after) ==
  /\ get_game_by_user(u) # None
  /\ after # players[get_game_by_user(u)]
  /\ players' = [players EXCEPT ![get_game_by_user(u)] = after]
  /\ UNCHANGED <<mode, is_timed, time_limit, current_player, winner,
                 surrendered, last_move_time, in_games, timer_task, pending, now>>
  /\ UNCHANGED history_vars

Me(u) == players[get_game_by_user(u)]

callback_auto_place(u, seed) ==
  /\ get_game_by_user(u) # None
  /\ players' = [players EXCEPT ![get_game_by_user(u)] = AutoPlaced(@, mode, seed)]
  /\ UNCHANGED <<mode, is_timed, time_limit, current_player, winner,
                 surrendered, last_move_time, in_games, timer_task, pending, now>>
  /\ UNCHANGED history_vars

callback_move_left(u)  == get_game_by_user(u) # None /\ PlacementStep(u, MovedLeft(Me(u), mode))
callback_move_right(u) == get_game_by_user(u) # None /\ PlacementStep(u, MovedRight(Me(u), mode))
callback_move_up(u)    == get_game_by_user(u) # None /\ PlacementStep(u, MovedUp(Me(u), mode))
callback_move_down(u)  == get_game_by_user(u) # None /\ PlacementStep(u, MovedDown(Me(u), mode))
callback_rotate(u)     == get_game_by_user(u) # None /\ PlacementStep(u, Rotated(Me(u), mode))
callback_place_ship(u) == get_game_by_user(u) # None /\ PlacementStep(u, ShipPlaced(Me(u), mode))
callback_edit_placement(u) ==
  get_game_by_user(u) # None /\ PlacementStep(u, PlacementReset(Me(u), mode))
callback_setup_cell(u, row, col) ==
  get_game_by_user(u) # None /\ PlacementStep(u, CellClicked(Me(u), mode, row, col))

(***************************************************************************)
(* Ready and the start of the battle.                                      *)
(***************************************************************************)
\* callback_ready with the comparison of the counts per size left out
FleetCounted(m, ships) == Len(ships) = Len(get_ship_config(m).ships)

\* the fleet has as many ships as the mode's fleet, and as many of each size
FleetComplete(m, ships) ==
  LET expected == get_ship_config(m).ships
  IN /\ Len(ships) = Len(expected)
     /\ \A i \in 1..Len(expected) :
           Count(Sizes(ships), expected[i]) = Count(expected, expected[i])

\* callback_ready up to its first await: the player is marked ready when the
\* fleet is complete, otherwise the player is shown an alert
callback_ready(u) ==
  /\ get_game_by_user(u) # None
  /\ IF FleetComplete(mode, Me(u).ships)
       THEN /\ players' = [players EXCEPT ![get_game_by_user(u)].ready = TRUE]
            /\ pending' = pending \cup {<<"ready", "check">>}
       ELSE /\ players' = players
            /\ pending' = pending \cup {<<"alert", get_game_by_user(u)>>}
  /\ UNCHANGED <<mode, is_timed, time_limit, current_player, winner,
                 surrendered, last_move_time, in_games, timer_task, now>>
  /\ UNCHANGED history_vars

\* a handler after `await callback.answer(..., show_alert=True)`: return
alert_answered(pid) ==
  /\ <<"alert", pid>> \in pending
  /\ pending' = pending \ {<<"alert", pid>>}
  /\ UNCHANGED <<now, in_games, timer_task>>
  /\ UNCHANGED game_vars
  /\ UNCHANGED history_vars

\* callback_ready after its awaits: start_battle is entered when both players
\* are ready, and suspends at its own awaits
ready_continue ==
  /\ <<"ready", "check">> \in pending
  /\ pending' = (pending \ {<<"ready", "check">>})
                  \cup (IF is_ready_to_start THEN {<<"start_battle", "run">>} ELSE {})
  /\ UNCHANGED <<now, in_games, timer_task>>
  /\ UNCHANGED game_vars
  /\ UNCHANGED history_vars

\* a player's miss obliges the player to wait until the opponent has held the turn
OwesAfter(o, turn) == IF turn \in PlayerIds THEN o \ {OtherId(turn)} ELSE o

\* start_battle after its awaits: the first player is drawn from the clock
\* and, in a timed session, the turn clock and the timer task are started
start_battle(first) ==
  /\ <<"start_battle", "run">> \in pending
  /\ pending' = pending \ {<<"start_battle", "run">>}
  /\ current_player' = first
  /\ last_move_time' = IF is_timed THEN now ELSE last_move_time
  /\ timer_task' = (timer_task \/ is_timed)
  /\ turn_start' = now
  /\ owes' = OwesAfter(owes, first)
  /\ UNCHANGED <<mode, is_timed, time_limit, players, winner, surrendered,
                 in_games, now, accepted, last_attack, finish>>

(***************************************************************************)
(* Battle: attacks through the bot and through the HTTP API.               *)
(***************************************************************************)
\* the history after an attack of `pid` answered `ans`
AttackHistory(via, pid, row, col, ans) ==
  /\ accepted' = IF Accepted(ans.kind) THEN accepted \cup {<<pid, row, col>>}
                 ELSE accepted
  /\ last_attack' = IF Accepted(ans.kind)
                    THEN [n |-> last_attack.n + 1, by |-> pid,
                          kind |-> ans.kind, ship |-> ans.ship]
                    ELSE last_attack
  /\ owes' = IF ans.kind = "miss" THEN owes \cup {pid} ELSE owes
  /\ finish' = IF ~check_game_over /\ ans.winner # None
               THEN [cause |-> "sinking", via |-> via, who |-> OtherId(pid)]
               ELSE finish
  /\ turn_start' = IF Accepted(ans.kind) THEN now ELSE turn_start

\* an answer of attack_cell that changed the session: the attack was carried
\* out, or it raised after its first writes
Changes(ans) == Accepted(ans.kind) \/ ans.kind = "IndexError"

\* callback_attack answers the user of slot pid with an alert: it is not
\* the user's turn, the session is over, or attack_cell returned an error
BotRejects(pid, row, col) ==
  \/ current_player # pid
  \/ check_game_over
  \/ attack_cell(players, mode, winner, pid, row, col).kind \in ErrorKinds

\* callback_attack up to its first await: turn and game-over checks,
\* attack_cell, the turn clock; the hand-over of the turn after a miss is
\* left to the continuation
callback_attack(u, row, col) ==
  LET pid == get_game_by_user(u)
      ans == attack_cell(players, mode, winner, pid, row, col)
  IN /\ pid # None
     /\ IF current_player # pid \/ check_game_over
          THEN \* "Не ваш ход!", "Игра уже закончена"
               /\ pending' = pending \cup {<<"alert", pid>>}
               /\ UNCHANGED <<players, winner, last_move_time>>
               /\ UNCHANGED history_vars
        ELSE IF ans.kind \in ErrorKinds
          THEN \* the session is left as attack_cell left it
               /\ players' = ans.players
               /\ winner' = ans.winner
               /\ pending' = pending \cup {<<"alert", pid>>}
               /\ UNCHANGED last_move_time
               /\ UNCHANGED history_vars
        ELSE /\ players' = ans.players
             /\ winner' = ans.winner
             /\ last_move_time' = IF Accepted(ans.kind) /\ is_timed THEN now
                                  ELSE last_move_time
             /\ pending' =
                  IF ans.kind = "miss" THEN pending \cup {<<"flip", pid>>}
                  ELSE IF Accepted(ans.kind) THEN pending \cup {<<"attack", "end">>}
                  ELSE pending
             /\ AttackHistory("bot", pid, row, col, ans)
     /\ UNCHANGED <<mode, is_timed, time_limit, current_player, surrendered,
                    in_games, timer_task, now>>

\* callback_attack after `await callback.answer("Мимо!")`: the turn passes
\* to the opponent
attack_flip(pid) ==
  /\ <<"flip", pid>> \in pending
  /\ current_player' = OtherId(pid)
  /\ last_move_time' = IF is_timed THEN now ELSE last_move_time
  /\ pending' = (pending \ {<<"flip", pid>>}) \cup {<<"attack", "end">>}
  /\ owes' = OwesAfter(owes, OtherId(pid))
  /\ turn_start' = now
  /\ UNCHANGED <<mode, is_timed, time_limit, players, winner, surrendered,
                 in_games, timer_task, now, accepted, last_attack, finish>>

\* callback_attack after the battle messages were sent: end_game is entered
\* when the session is over
attack_end ==
  /\ <<"attack", "end">> \in pending
  /\ pending' = (pending \ {<<"attack", "end">>})
                  \cup (IF check_game_over /\ EndGameRuns(winner)
                        THEN {<<"end_game", "run">>} ELSE {})
  /\ UNCHANGED <<now, in_games, timer_task>>
  /\ UNCHANGED game_vars
  /\ UNCHANGED history_vars

\* end_game after its awaits: the session leaves `games`
end_game ==
  /\ <<"end_game", "run">> \in pending
  /\ pending' = pending \ {<<"end_game", "run">>}
  /\ in_games' = FALSE
  /\ UNCHANGED <<now, timer_task>>
  /\ UNCHANGED game_vars
  /\ UNCHANGED history_vars

\* api_attack answers {'error': ...} with status 400: the session is not in
\* the battle phase, it is not the caller's turn, or attack_cell returned an
\* error
ApiRejects(pid, row, col) ==
  \/ ~is_ready_to_start
  \/ current_player # pid
  \/ attack_cell(players, mode, winner, pid, row, col).kind \in ErrorKinds

\* api_attack with game.last_move_time assigned before the test of the
\* answer of attack_cell
api_attack_clock_first(pid, row, col) ==
  LET ans == attack_cell(players, mode, winner, pid, row, col)
  IN /\ in_games
     /\ IF ~is_ready_to_start \/ current_player # pid
          THEN /\ UNCHANGED <<players, winner, last_move_time>>
               /\ UNCHANGED history_vars
          ELSE /\ players' = ans.players
               /\ winner' = ans.winner
               /\ last_move_time' = now
               /\ IF ans.kind \in ErrorKinds THEN UNCHANGED history_vars
                  ELSE AttackHistory("api", pid, row, col, ans)
     /\ UNCHANGED <<mode, is_timed, time_limit, current_player, surrendered,
                    in_games, timer_task, pending, now>>

\* api_attack lines 271-277: attack_cell, and the turn clock when the answer
\* is not an error
api_attack_apply(pid, row, col) ==
  LET ans == attack_cell(players, mode, winner, pid, row, col)
  IN IF ans.kind \in ErrorKinds
       THEN \* the session is left as attack_cell left it
            /\ players' = ans.players
            /\ winner' = ans.winner
            /\ UNCHANGED last_move_time
            /\ UNCHANGED history_vars
       ELSE /\ players' = ans.players
            /\ winner' = ans.winner
            /\ last_move_time' = IF Accepted(ans.kind) THEN now ELSE last_move_time
            /\ AttackHistory("api", pid, row, col, ans)

\* api_attack: phase and turn checks, attack_cell, the turn clock.  The
\* coroutine end_game(game) is created and never awaited.
api_attack(pid, row, col) ==
  /\ in_games
  /\ IF ~is_ready_to_start \/ current_player # pid
       THEN /\ UNCHANGED <<players, winner, last_move_time>>
            /\ UNCHANGED history_vars
       ELSE api_attack_apply(pid, row, col)
  /\ UNCHANGED <<mode, is_timed, time_limit, current_player, surrendered,
                 in_games, timer_task, pending, now>>

\* The Flask server runs in a thread of its own (main: Thread(target=
\* run_flask)), and no lock protects the session: the thread of a request can
\* be suspended between two statements while the event loop of the bot runs.
\* api_attack up to the end of its checks (lines 252-269):
api_attack_checked(pid, row, col) ==
  /\ in_games
  /\ is_ready_to_start
  /\ current_player = pid
  /\ pending' = pending \cup {<<"api_attack", <<pid, row, col>>>>}
  /\ UNCHANGED <<now, in_games, timer_task>>
  /\ UNCHANGED game_vars
  /\ UNCHANGED history_vars

\* and api_attack from line 271 on, when its thread runs again
api_attack_resumed(pid, row, col) ==
  /\ <<"api_attack", <<pid, row, col>>>> \in pending
  /\ pending' = pending \ {<<"api_attack", <<pid, row, col>>>>}
  /\ api_attack_apply(pid, row, col)
  /\ UNCHANGED <<mode, is_timed, time_limit, current_player, surrendered,
                 in_games, timer_task, now>>

(***************************************************************************)
(* Surrender and the per-turn timer.                                       *)
(***************************************************************************)
\* callback_surrender up to its first await
callback_surrender(u) ==
  LET pid == get_game_by_user(u)
  IN /\ pid # None
     /\ ~check_game_over
     /\ surrendered' = pid
     /\ winner' = OtherId(pid)
     /\ pending' = pending \cup (IF EndGameRuns(OtherId(pid))
                                 THEN {<<"end_game", "run">>} ELSE {})
     /\ finish' = [cause |-> "surrender", via |-> "bot", who |-> pid]
     /\ UNCHANGED <<mode, is_timed, time_limit, players, current_player,
                    last_move_time, in_games, timer_task, now,
                    accepted, last_attack, owes, turn_start>>

\* api_surrender: no check of the phase; end_game(game) is never awaited
api_surrender(pid) ==
  /\ in_games
  /\ surrendered' = "True"
  /\ winner' = OtherId(pid)
  /\ finish' = IF check_game_over THEN finish
               ELSE [cause |-> "surrender", via |-> "api", who |-> pid]
  /\ UNCHANGED <<mode, is_timed, time_limit, players, current_player,
                 last_move_time, in_games, timer_task, pending, now,
                 accepted, last_attack, owes, turn_start>>

\* update_timer_task lines 860-870: the round finds the time of the turn
\* holder expired
TimedOut ==
  /\ is_timed /\ last_move_time # NoTime
  /\ now - last_move_time >= time_limit
  /\ current_player # None

\* one round of update_timer_task after its sleep
update_timer_task ==
  /\ timer_task
  /\ IF ~in_games \/ (is_timed /\ last_move_time # NoTime /\ check_game_over)
       THEN \* break
            /\ timer_task' = FALSE
            /\ UNCHANGED <<pending, finish>>
            /\ UNCHANGED game_vars
       ELSE \* the turn holder loses when the limit has passed
            /\ TimedOut
            /\ winner' = OtherId(current_player)
            /\ surrendered' = current_player
            /\ pending' = pending \cup (IF EndGameRuns(OtherId(current_player))
                                        THEN {<<"end_game", "run">>} ELSE {})
            /\ timer_task' = FALSE
            /\ finish' = [cause |-> "timeout", via |-> "timer",
                          who |-> current_player]
            /\ UNCHANGED <<mode, is_timed, time_limit, players, current_player,
                           last_move_time>>
  /\ UNCHANGED <<in_games, now, accepted, last_attack, owes, turn_start>>

\* time passes while a timer task of the session sleeps
Tick ==
  /\ timer_task
  /\ now' = now + FAST_TIME_LIMIT
  /\ UNCHANGED <<in_games, timer_task, pending>>
  /\ UNCHANGED game_vars
  /\ UNCHANGED history_vars

(***************************************************************************)
(* The explored budgets.  Every operation of a budgeted kind is counted in *)
(* `used`.  The mode, timer and placement buttons pressed before the       *)
(* battle has started are counted by kind; the same buttons pressed once   *)
(* the battle has started are the late operations.                         *)
(***************************************************************************)
Budget == [config |-> MaxConfigOps, timer |-> MaxTimerOps,
           manual |-> MaxManualOps, auto |-> MaxAutoOps,
           attacks |-> MaxAttacks, aimed |-> MaxBattleAttacks,
           ticks |-> MaxTicks, late |-> MaxLateOps, sweeps |-> MaxSweeps]

Spend(kind) ==
  /\ used[kind] < Budget[kind]
  /\ used' = [used EXCEPT ![kind] = @ + 1]
  /\ UNCHANGED call
  /\ UNCHANGED room_vars

SpendSetup(kind) == current_player = None /\ Spend(kind)

SpendLate == current_player # None /\ Spend("late")

Free == UNCHANGED <<used, call>> /\ UNCHANGED room_vars

\* get_remaining_ships
get_remaining_ships(player) ==
  Cardinality({i \in 1..Len(player.ships) : ~player.ships[i].destroyed})

\* the keys of required_ships_dict in the order the dict holds them: the
\* sizes of the configuration in the order of their first appearance
FirstSeen(x) ==
  LET idx == {i \in 1..Len(x) : \A j \in 1..(i - 1) : x[j] # x[i]}
  IN [k \in 1..Cardinality(idx) |->
        x[CHOOSE i \in idx : Cardinality({j \in idx : j < i}) = k - 1]]

\* the session as serialize_game_state reads it
Game ==
  [mode |-> mode, is_timed |-> is_timed, current_player |-> current_player,
   players |-> players, winner |-> winner, surrendered |-> surrendered]

\* lines 432-438
SnapshotPhase(game, player_id) ==
  LET player   == game.players[player_id]
      opponent == game.players[OtherId(player_id)]
  IN IF game.players["p1"].present /\ game.players["p2"].present
       THEN IF player.ready /\ opponent.ready THEN "battle" ELSE "setup"
       ELSE "lobby"

\* the entry of a player in the snapshot; fields read from an absent player
\* are None, 0 and False
SnapshotPublic(p) ==
  [user_id |-> IF p.present THEN p.user_id ELSE 0,
   ships_remaining |-> IF p.present THEN get_remaining_ships(p) ELSE 0,
   ready |-> p.present /\ p.ready]

SnapshotOwn(p) ==
  [user_id |-> IF p.present THEN p.user_id ELSE 0,
   board |-> p.board,
   attacks |-> p.attacks,
   ships_remaining |-> IF p.present THEN get_remaining_ships(p) ELSE 0,
   ready |-> p.present /\ p.ready]

\* serialize_game_state with the board of the opponent in the opponent's
\* entry
serialize_with_board(game, player_id) ==
  [phase |-> SnapshotPhase(game, player_id),
   player_id |-> player_id,
   players |-> [me |-> SnapshotOwn(game.players[player_id]),
                opponent |-> SnapshotOwn(game.players[OtherId(player_id)])]]

\* serialize_game_state(game, player_id); `id`, the user names, last_move
\* and time_remaining (always None) are left out
serialize_game_state(game, player_id) ==
  LET player   == game.players[player_id]
      opponent == game.players[OtherId(player_id)]
      config   == get_ship_config(game.mode)
      phase    == SnapshotPhase(game, player_id)
      required == FirstSeen(config.ships)
      missing  == [k \in 1..Len(required) |->
                     [size  |-> required[k],
                      count |-> Count(config.ships, required[k])
                                  - Count(Sizes(player.ships), required[k])]]
  IN [phase |-> phase,
      mode |-> game.mode,
      is_timed |-> game.is_timed,
      current_player |-> game.current_player,
      player_id |-> player_id,
      config |-> config,
      players |-> [me |-> SnapshotOwn(player), opponent |-> SnapshotPublic(opponent)],
      ships_to_place |-> IF phase = "setup" /\ player.present
                           THEN SelectSeq(missing, LAMBDA t : t.count > 0)
                           ELSE <<>>,
      winner |-> game.winner,
      surrendered |-> game.surrendered]

\* api_get_game_state: GET /api/game/<id>/state?player_id=...
api_get_game_state(player_id) ==
  /\ in_games
  /\ call = NoCall
  /\ call' = [fn |-> "serialize_game_state", game |-> Game,
              player_id |-> player_id,
              result |-> serialize_game_state(Game, player_id)]
  /\ UNCHANGED session_vars
  /\ UNCHANGED used

\* lines 331-343 of api_place_ship: of every size at least as many ships as
\* the configuration asks for
FleetCovered(m, ships) ==
  \A n \in SeqToSet(get_ship_config(m).ships) :
     Count(Sizes(ships), n) >= Count(get_ship_config(m).ships, n)

\* the positional parameters the functions of game_logic.py declare
Declared ==
  [validate_ship_placement |-> 6, place_ship |-> 5, auto_place_ships |-> 1]

\* a call with `given` positional arguments: Python raises TypeError before
\* the body runs unless the function declares as many
Bind(fn, given) == IF given = Declared[fn] THEN "bound" ELSE "TypeError"

\* the answer of api_place_ship.  Line 324 calls validate_ship_placement(
\* player.board, player.ships, size, row, col, horizontal, config['size'])
\* with seven arguments, line 328 calls place_ship with six; the handler
\* catches every exception and answers 500 (lines 361-363).
PlaceShipStatus(pid, size, row, col, horizontal) ==
  IF ~in_games THEN 404
  ELSE IF ~players[pid].present THEN 400
  ELSE IF Bind("validate_ship_placement", 7) = "TypeError" THEN 500
  ELSE IF validate_ship_placement(players[pid].board, get_ship_config(mode).size,
                                  row, col, size, horizontal) # "True" THEN 400
  ELSE IF Bind("place_ship", 6) = "TypeError" THEN 500
  ELSE 200

\* api_place_ship: POST /api/game/<id>/place-ship; the session changes only
\* when both calls went through (lines 328-353)
api_place_ship(pid, size, row, col, horizontal) ==
  LET status == PlaceShipStatus(pid, size, row, col, horizontal)
      placed == place_ship(players[pid].board, row, col, size, horizontal)
      ships  == Append(players[pid].ships, NewShip(size, placed.cells))
      after  == [players EXCEPT ![pid].board = placed.board,
                                ![pid].ships = ships,
                                ![pid].ready = @ \/ FleetCovered(mode, ships)]
  IN /\ call = NoCall
     /\ call' = [fn |-> "api_place_ship", game |-> Game, player_id |-> pid,
                 size |-> size, row |-> row, col |-> col,
                 horizontal |-> horizontal, status |-> status]
     /\ players' = IF status = 200 THEN after ELSE players
     /\ current_player' =
          IF /\ status = 200
             /\ after["p1"].present /\ after["p1"].ready
             /\ after["p2"].present /\ after["p2"].ready
            THEN "p1" ELSE current_player
     /\ UNCHANGED <<mode, is_timed, time_limit, winner, surrendered,
                    last_move_time, in_games, timer_task, pending, now, used>>
     /\ UNCHANGED history_vars
     /\ UNCHANGED room_vars

\* cleanup_old_games, the test of one round on the session: lines 2924-2925
\* and 2928-2931 skip the session, lines 2934, 2940 and 2946 put it on the
\* list games_to_remove.  created_at is the time 0 of the clock `now`.
sweep_by_age_only ==
  \/ now > SWEEP_DAY
  \/ ~players["p2"].present /\ now > SWEEP_HOUR
  \/ check_game_over /\ now > SWEEP_HOUR

sweep_by_day_only ==
  /\ ~(current_player # None /\ winner = None /\ surrendered = None)
  /\ ~(/\ players["p1"].present /\ players["p2"].present
       /\ winner = None /\ surrendered = None /\ current_player = None)
  /\ now > SWEEP_DAY

sweep_removes ==
  IF current_player # None /\ winner = None /\ surrendered = None THEN FALSE
  ELSE IF /\ players["p1"].present /\ players["p2"].present
          /\ winner = None /\ surrendered = None /\ current_player = None
       THEN FALSE
  ELSE IF now > SWEEP_DAY THEN TRUE
  ELSE IF ~players["p2"].present /\ now > SWEEP_HOUR THEN TRUE
  ELSE (winner # None \/ surrendered # None) /\ now > SWEEP_HOUR

\* one round of cleanup_old_games (lines 2919-2952); the task runs in the
\* event loop and has no await between the test and the removal
cleanup_old_games ==
  /\ in_games
  /\ in_games' = ~sweep_removes
  /\ UNCHANGED <<now, timer_task, pending>>
  /\ UNCHANGED game_vars
  /\ UNCHANGED history_vars

\* the moments at which the session is looked at: one hour and one day
\* after its creation, and one second after each
SweepTimes == {SWEEP_HOUR, SWEEP_HOUR + 1, SWEEP_DAY, SWEEP_DAY + 1}

\* time passes until moment t
Passes(t) ==
  /\ now < t
  /\ now' = t
  /\ UNCHANGED <<in_games, timer_task, pending>>
  /\ UNCHANGED game_vars
  /\ UNCHANGED history_vars

\* the content of a cell of a grid, "Outside" for a cell the grid lacks
At(grid, rc) == IF rc \in DOMAIN grid THEN grid[rc] ELSE "Outside"

\* the cells of a fleet, ship after ship
RECURSIVE FleetCells(_)
FleetCells(ships) ==
  IF ships = <<>> THEN <<>> ELSE Head(ships).cells \o FleetCells(Tail(ships))

\* the cells a player who aims attacks: the first cell of the opponent's
\* fleet that the tracking grid of pid shows as not attacked, and the last cell of
\* the explored corner of the board
Targets(pid) ==
  LET cells == FleetCells(players[OtherId(pid)].ships)
      open == {k \in 1..Len(cells) : At(players[pid].attacks, cells[k]) = Empty}
  IN {cells[k] : k \in {j \in open : \A o \in open : j <= o}}
       \cup {<<MaxCoord, MaxCoord>>}

DoJoin == \E u \in Users : Free /\ cmd_start_join(u)
DoApiJoin == \E u \in Users : Free /\ api_join_game(u)
DoMode ==
  \E u \in Users, m \in {"classic", "fast"} :
     SpendSetup("config") /\ callback_mode(u, m)
DoTimer ==
  \E u \in Users, choice \in {"yes", "no"} :
     SpendSetup("timer") /\ callback_timer(u, choice)
DoAutoPlace ==
  \E u \in Users, seed \in Seeds : SpendSetup("auto") /\ callback_auto_place(u, seed)
DoMoveLeft == \E u \in Users : SpendSetup("manual") /\ callback_move_left(u)
DoMoveRight == \E u \in Users : SpendSetup("manual") /\ callback_move_right(u)
DoMoveUp == \E u \in Users : SpendSetup("manual") /\ callback_move_up(u)
DoMoveDown == \E u \in Users : SpendSetup("manual") /\ callback_move_down(u)
DoRotate == \E u \in Users : SpendSetup("manual") /\ callback_rotate(u)
DoPlaceShip == \E u \in Users : SpendSetup("manual") /\ callback_place_ship(u)
DoEditPlacement == \E u \in Users : SpendSetup("manual") /\ callback_edit_placement(u)
DoSetupCell ==
  \E u \in Users, row \in ClickCoords, col \in ClickCoords :
     SpendSetup("manual") /\ callback_setup_cell(u, row, col)
DoLateMode ==
  \E u \in Users, m \in {"classic", "fast"} : SpendLate /\ callback_mode(u, m)
DoLateTimer ==
  \E u \in Users, choice \in {"yes", "no"} : SpendLate /\ callback_timer(u, choice)
DoLateAutoPlace ==
  \E u \in Users, seed \in Seeds : SpendLate /\ callback_auto_place(u, seed)
DoLatePlacement ==
  \E u \in Users :
     /\ SpendLate
     /\ \/ callback_move_left(u) \/ callback_move_right(u)
        \/ callback_move_up(u) \/ callback_move_down(u)
        \/ callback_rotate(u) \/ callback_place_ship(u)
        \/ callback_edit_placement(u)
        \/ \E row \in ClickCoords, col \in ClickCoords :
              callback_setup_cell(u, row, col)
\* ready pressed by a player whose fleet is complete
DoReady ==
  \E u \in Users :
     /\ get_game_by_user(u) # None
     /\ FleetComplete(mode, Me(u).ships)
     /\ Free /\ callback_ready(u)
\* ready pressed by a player whose fleet is not complete
DoEarlyReady ==
  \E u \in Users :
     /\ get_game_by_user(u) # None
     /\ ~FleetComplete(mode, Me(u).ships)
     /\ Free /\ callback_ready(u)
DoAlertAnswered == \E pid \in PlayerIds : Free /\ alert_answered(pid)
DoReadyContinue == Free /\ ready_continue
DoStartBattle == \E first \in PlayerIds : Free /\ start_battle(first)
\* an attack through the bot that is not answered with an alert
DoAttack ==
  \E u \in Users, row \in Coords, col \in Coords :
     /\ get_game_by_user(u) # None
     /\ ~BotRejects(get_game_by_user(u), row, col)
     /\ Spend("attacks") /\ callback_attack(u, row, col)
DoAimedAttack ==
  \E u \in Users :
     /\ get_game_by_user(u) # None
     /\ \E rc \in Targets(get_game_by_user(u)) :
           /\ ~BotRejects(get_game_by_user(u), rc[1], rc[2])
           /\ Spend("aimed") /\ callback_attack(u, rc[1], rc[2])
\* an attack through the bot that is answered with an alert
DoRejectedAttack ==
  \E u \in Users, row \in AnyCoords, col \in AnyCoords :
     /\ get_game_by_user(u) # None
     /\ BotRejects(get_game_by_user(u), row, col)
     /\ Spend("attacks") /\ callback_attack(u, row, col)
DoAttackFlip == \E pid \in PlayerIds : Free /\ attack_flip(pid)
DoAttackEnd == Free /\ attack_end
DoEndGame == Free /\ end_game
\* an attack through the HTTP API that is not answered with status 400
DoApiAttack ==
  \E pid \in PlayerIds, row \in Coords, col \in Coords :
     /\ ~ApiRejects(pid, row, col)
     /\ Spend("attacks") /\ api_attack(pid, row, col)
\* an attack through the HTTP API that is answered with status 400
DoApiRejectedAttack ==
  \E pid \in PlayerIds, row \in AnyCoords, col \in AnyCoords :
     /\ ApiRejects(pid, row, col)
     /\ Spend("attacks") /\ api_attack(pid, row, col)
\* an attack through the HTTP API whose thread is suspended after the checks
DoApiAttackChecked ==
  \E pid \in PlayerIds, row \in Coords, col \in Coords :
     Spend("attacks") /\ api_attack_checked(pid, row, col)
DoApiAttackResumed ==
  \E pid \in PlayerIds, row \in Coords, col \in Coords :
     Free /\ api_attack_resumed(pid, row, col)
DoSurrender == \E u \in Users : Free /\ callback_surrender(u)
DoSweep == Spend("sweeps") /\ cleanup_old_games
DoGetState == \E pid \in PlayerIds : api_get_game_state(pid)
DoApiPlaceShip ==
  \E pid \in PlayerIds, size \in 1..MaxProbeShip, row \in ClickCoords,
     col \in ClickCoords, horizontal \in BOOLEAN :
       api_place_ship(pid, size, row, col, horizontal)
DoPasses == \E t \in SweepTimes : Free /\ Passes(t)
DoApiSurrender == \E pid \in PlayerIds : Free /\ api_surrender(pid)
DoTimerCheck == Free /\ update_timer_task
DoTick == Spend("ticks") /\ Tick

\* callback_leave_queue after its first await (line 2716): only p2 may
\* leave, and not when both players are ready and the turn pointer is set
\* (lines 2726-2733); the slot of p2 is emptied (line 2750)
callback_leave_queue(u) ==
  /\ get_game_by_user(u) = "p2"
  /\ ~(is_ready_to_start /\ current_player # None)
  /\ players["p1"].present
  /\ players' = [players EXCEPT !["p2"] = NoPlayer]
  /\ UNCHANGED <<mode, is_timed, time_limit, current_player, winner,
                 surrendered, last_move_time, in_games, timer_task, pending,
                 now>>
  /\ UNCHANGED history_vars

DoLeaveQueue == \E u \in Users : Free /\ callback_leave_queue(u)

\* ---------------------------------------------------------------------
\* src/room_manager.py: the RoomManager instance.  Its methods have no
\* await and no caller in src/, so each call is one step.  Of a room the
\* fields source, chatId, createdAt and groupMessages are left out: no
\* method reads them to decide anything.

MaxTgId == 3

INACTIVE_TIMEOUT == 30 * 60

\* Telegram ids of the callers
TgIds == 1..MaxTgId

\* the username a caller passes along with their id
UsernameOf(tg_id) ==
  LET names == <<"ann", "bob", "cat", "dan">>
  IN IF tg_id \in DOMAIN names THEN names[tg_id] ELSE "anon"

\* codes generate_room_code can return (upper-case letters and digits)
RoomCodes == {"AB", "C7"}

\* room codes as callers pass them
CodeInputs == {"AB", "ab ", "C7", "ZZ"}

\* str(room_code).upper().strip()
Normalize(room_code) ==
  CASE room_code = "ab " -> "AB"
    [] OTHER -> room_code

\* statuses a room is given: by create_room, set_ready, update_room_status
RoomStatuses == {"WAITING", "PLAYING", "FINISHED"}

\* 'joiner': None
NoJoiner == [present |-> FALSE, tgId |-> 0, username |-> None, ready |-> FALSE]

NewJoiner(tg_id, username) ==
  [present |-> TRUE, tgId |-> tg_id, username |-> username, ready |-> FALSE]

\* the room dict of create_room
NewRoom(room_code, tg_id, username, m, timed) ==
  [roomCode |-> room_code, gameId |-> room_code,
   creator |-> [tgId |-> tg_id, username |-> username, ready |-> FALSE],
   joiner |-> NoJoiner, status |-> "WAITING",
   gameConfig |-> [mode |-> m, is_timed |-> timed],
   lastActivityAt |-> now]

\* d[key] = value on a dict
Put(d, key, value) ==
  [k \in DOMAIN d \cup {key} |-> IF k = key THEN value ELSE d[k]]

\* `not self.game_manager`: None and the empty dict are both false
Truthy(gm) == gm.given /\ gm.keys # {}

\* self.game_manager = None
NoManager == [given |-> FALSE, keys |-> {}]

\* get_room_data
get_room_data(room) ==
  [roomCode |-> room.roomCode, gameId |-> room.gameId, status |-> room.status,
   creator |-> [username |-> room.creator.username,
                ready |-> room.creator.ready],
   joiner |-> IF room.joiner.present
                THEN [present |-> TRUE, username |-> room.joiner.username,
                      ready |-> room.joiner.ready]
                ELSE [present |-> FALSE, username |-> None, ready |-> FALSE],
   gameConfig |-> room.gameConfig]

NoData == [kind |-> None]

Data(room) == [kind |-> "data", data |-> get_room_data(room)]

\* what a method of the RoomManager leaves alone
RoomFrame ==
  /\ UNCHANGED game_vars
  /\ UNCHANGED history_vars
  /\ UNCHANGED <<in_games, timer_task, pending, used>>

\* init(game_manager): the dict `games`, given by its keys
init(gm) ==
  /\ game_manager' = [given |-> TRUE, keys |-> gm]
  /\ UNCHANGED <<rooms, room_by_game_id, now, call>>
  /\ RoomFrame

\* games[game_id] = GameState(...) by the owner of the dict
game_added(game_id) ==
  /\ game_manager.given
  /\ game_id \notin game_manager.keys
  /\ game_manager' = [game_manager EXCEPT !.keys = @ \cup {game_id}]
  /\ UNCHANGED <<rooms, room_by_game_id, now, call>>
  /\ RoomFrame

\* create_room: raises ValueError without a game manager (line 45-46);
\* generate_room_code draws until the code is not a key of rooms
create_room(room_code, tg_id, username, m, timed) ==
  /\ room_code \in RoomCodes \ DOMAIN rooms
  /\ IF Truthy(game_manager)
       THEN /\ rooms' = Put(rooms, room_code,
                            NewRoom(room_code, tg_id, username, m, timed))
            /\ room_by_game_id' = Put(room_by_game_id, room_code, room_code)
            /\ call' = [fn |-> "create_room", result |-> [kind |-> "created"]]
       ELSE /\ UNCHANGED <<rooms, room_by_game_id>>
            /\ call' = [fn |-> "create_room",
                        result |-> [kind |-> "ValueError"]]
  /\ UNCHANGED <<game_manager, now>>
  /\ RoomFrame

\* the answer of join_room, lines 100-135
join_room_result(room_code, tg_id, username) ==
  LET code == Normalize(room_code)
  IN IF code \notin DOMAIN rooms THEN NoData
     ELSE IF rooms[code].status # "WAITING" THEN NoData
     ELSE IF rooms[code].creator.tgId = tg_id THEN Data(rooms[code])
     ELSE IF rooms[code].joiner.present
       THEN IF rooms[code].joiner.tgId = tg_id THEN Data(rooms[code])
            ELSE NoData
     ELSE Data([rooms[code] EXCEPT !.joiner = NewJoiner(tg_id, username),
                                   !.lastActivityAt = now])

\* the test of lines 103-112, without the test of line 117
join_room_replaces(room_code, tg_id) ==
  LET code == Normalize(room_code)
  IN /\ code \in DOMAIN rooms
     /\ rooms[code].status = "WAITING"
     /\ rooms[code].creator.tgId # tg_id

\* the test under which join_room reaches lines 125-131
join_room_adds(room_code, tg_id) ==
  LET code == Normalize(room_code)
  IN /\ code \in DOMAIN rooms
     /\ rooms[code].status = "WAITING"
     /\ rooms[code].creator.tgId # tg_id
     /\ ~rooms[code].joiner.present

\* join_room
join_room(room_code, tg_id, username) ==
  LET code == Normalize(room_code)
  IN /\ rooms' = IF join_room_adds(room_code, tg_id)
                   THEN [rooms EXCEPT ![code].joiner =
                                         NewJoiner(tg_id, username),
                                      ![code].lastActivityAt = now]
                   ELSE rooms
     /\ call' = [fn |-> "join_room", room_code |-> room_code,
                 player_tg_id |-> tg_id,
                 result |-> join_room_result(room_code, tg_id, username)]
     /\ UNCHANGED <<room_by_game_id, game_manager, now>>
     /\ RoomFrame

\* set_ready, lines 148-172
set_ready(room_code, tg_id) ==
  LET code  == Normalize(room_code)
      room  == rooms[code]
      known == /\ code \in DOMAIN rooms
               /\ \/ room.creator.tgId = tg_id
                  \/ room.joiner.present /\ room.joiner.tgId = tg_id
      ready == IF room.creator.tgId = tg_id
                 THEN [room EXCEPT !.creator.ready = TRUE]
                 ELSE [room EXCEPT !.joiner.ready = TRUE]
      both  == ready.creator.ready /\ ready.joiner.present
               /\ ready.joiner.ready
      after == [ready EXCEPT !.lastActivityAt = now,
                             !.status = IF both /\ @ = "WAITING"
                                          THEN "PLAYING" ELSE @]
  IN /\ rooms' = IF known THEN [rooms EXCEPT ![code] = after] ELSE rooms
     /\ call' = [fn |-> "set_ready",
                 result |-> [kind |-> IF known THEN "data" ELSE None]]
     /\ UNCHANGED <<room_by_game_id, game_manager, now>>
     /\ RoomFrame

\* update_room_status
update_room_status(room_code, status) ==
  LET code == Normalize(room_code)
  IN /\ rooms' = IF code \in DOMAIN rooms
                   THEN [rooms EXCEPT ![code].status = status,
                                      ![code].lastActivityAt = now]
                   ELSE rooms
     /\ call' = [fn |-> "update_room_status", result |-> NoData]
     /\ UNCHANGED <<room_by_game_id, game_manager, now>>
     /\ RoomFrame

\* a first loop that takes every room
rooms_to_delete_all == DOMAIN rooms

\* cleanup_inactive_rooms, first loop (lines 249-254)
rooms_to_delete ==
  {code \in DOMAIN rooms : now - rooms[code].lastActivityAt > INACTIVE_TIMEOUT}

\* cleanup_inactive_rooms, second loop (lines 256-269)
cleanup_inactive_rooms ==
  LET gone  == rooms_to_delete
      games == {rooms[code].gameId : code \in gone}
  IN /\ rooms' = [code \in DOMAIN rooms \ gone |-> rooms[code]]
     /\ room_by_game_id' =
          [g \in DOMAIN room_by_game_id \ games |-> room_by_game_id[g]]
     /\ game_manager' = IF Truthy(game_manager)
                          THEN [game_manager EXCEPT !.keys = @ \ games]
                          ELSE game_manager
     /\ call' = [fn |-> "cleanup_inactive_rooms", at |-> now,
                 cleaned |-> Cardinality(gone)]
     /\ UNCHANGED now
     /\ RoomFrame

\* clock readings around the timeout of a room touched at 0 or at 1
RoomTimes == {1, INACTIVE_TIMEOUT, INACTIVE_TIMEOUT + 1, INACTIVE_TIMEOUT + 2}

\* time.sleep / time between two calls
RoomClock(t) ==
  /\ now < t
  /\ now' = t
  /\ UNCHANGED <<call>>
  /\ UNCHANGED room_vars
  /\ RoomFrame

DoRoomInit == \E gm \in {{}, {"G1"}} : game_manager = NoManager /\ init(gm)

DoGameAdded == \E game_id \in RoomCodes : game_added(game_id)

DoCreateRoom ==
  \E room_code \in RoomCodes, tg_id \in TgIds :
    create_room(room_code, tg_id, UsernameOf(tg_id), "full", FALSE)

DoJoinRoom ==
  \E room_code \in CodeInputs, tg_id \in TgIds :
    join_room(room_code, tg_id, UsernameOf(tg_id))

DoSetReady ==
  \E room_code \in CodeInputs, tg_id \in TgIds : set_ready(room_code, tg_id)

DoUpdateRoomStatus ==
  \E room_code \in RoomCodes, status \in RoomStatuses :
    update_room_status(room_code, status)

DoCleanupRooms == cleanup_inactive_rooms

DoRoomClock == \E t \in RoomTimes : RoomClock(t)

\* every handler, any user, any order
Next ==
  \/ DoJoin \/ DoApiJoin \/ DoMode \/ DoTimer
  \/ DoAutoPlace \/ DoMoveLeft \/ DoMoveRight \/ DoMoveUp \/ DoMoveDown
  \/ DoRotate \/ DoPlaceShip \/ DoEditPlacement \/ DoSetupCell
  \/ DoLateMode \/ DoLateTimer \/ DoLateAutoPlace \/ DoLatePlacement
  \/ DoReady \/ DoEarlyReady \/ DoAlertAnswered \/ DoReadyContinue \/ DoStartBattle
  \/ DoAttack \/ DoAimedAttack \/ DoRejectedAttack
  \/ DoAttackFlip \/ DoAttackEnd \/ DoEndGame
  \/ DoApiAttack \/ DoApiRejectedAttack
  \/ DoApiAttackChecked \/ DoApiAttackResumed
  \/ DoSurrender \/ DoApiSurrender
  \/ DoSweep \/ DoPasses \/ DoGetState \/ DoApiPlaceShip
  \/ DoTimerCheck \/ DoTick
  \/ DoLeaveQueue
  \/ DoRoomInit \/ DoGameAdded \/ DoCreateRoom \/ DoJoinRoom \/ DoSetReady
  \/ DoUpdateRoomStatus \/ DoCleanupRooms \/ DoRoomClock

Spec == Init /\ [][Next]_vars

(***************************************************************************)
(* Specifications of parts of the session: the same handlers, with the     *)
(* users restricted to the buttons and requests one group of properties    *)
(* speaks about.  Every step of such a specification is a step of Next.    *)
(***************************************************************************)
\* placement: every placement button, the mode buttons, ready
NextPlacement ==
  \/ DoJoin \/ DoMode
  \/ DoAutoPlace \/ DoMoveLeft \/ DoMoveRight \/ DoMoveUp \/ DoMoveDown
  \/ DoRotate \/ DoPlaceShip \/ DoEditPlacement \/ DoSetupCell
  \/ DoReady

SpecPlacement == Init /\ [][NextPlacement]_vars

\* battle: auto-placed fleets, attacks and surrenders through the bot and
\* through the HTTP API
NextBattle ==
  \/ DoJoin \/ DoAutoPlace
  \/ DoReady \/ DoReadyContinue \/ DoStartBattle
  \/ DoAttack \/ DoAttackFlip \/ DoAttackEnd \/ DoEndGame \/ DoApiAttack
  \/ DoSurrender \/ DoApiSurrender

SpecBattle == Init /\ [][NextBattle]_vars

\* battle with the mode buttons still pressed
NextReset ==
  \/ DoJoin \/ DoAutoPlace \/ DoLateMode
  \/ DoReady \/ DoReadyContinue \/ DoStartBattle
  \/ DoAttack \/ DoAttackFlip \/ DoAttackEnd \/ DoApiAttack

SpecReset == Init /\ [][NextReset]_vars

\* timed battle: mode and timer buttons, the timer task and the clock,
\* attacks through the HTTP API
NextTimer ==
  \/ DoJoin \/ DoMode \/ DoTimer \/ DoAutoPlace
  \/ DoReady \/ DoReadyContinue \/ DoStartBattle
  \/ DoEndGame \/ DoApiAttack
  \/ DoTimerCheck \/ DoTick

SpecTimer == Init /\ [][NextTimer]_vars

\* battle on edited fleets: mode buttons, auto placement, removal of a ship
\* by a click and placement of the missing ship, attacks through the HTTP API
NextEdit ==
  \/ DoJoin \/ DoMode \/ DoAutoPlace \/ DoSetupCell \/ DoPlaceShip
  \/ DoReady \/ DoReadyContinue \/ DoStartBattle
  \/ DoApiAttack

SpecEdit == Init /\ [][NextEdit]_vars

\* a whole battle of a fast session: auto-placed fleets, aimed attacks
\* through the bot until a fleet is sunk, surrender
NextWin ==
  \/ DoJoin \/ DoAutoPlace
  \/ DoReady \/ DoReadyContinue \/ DoStartBattle
  \/ DoAimedAttack \/ DoAttackFlip \/ DoAttackEnd \/ DoEndGame
  \/ DoSurrender

SpecWin == InitFast /\ [][NextWin]_vars

\* battle with attacks that are refused: through the bot and through the
\* HTTP API, out of turn, outside the board, on an attacked cell, after a
\* surrender
NextRefuse ==
  \/ DoJoin \/ DoAutoPlace
  \/ DoReady \/ DoReadyContinue \/ DoStartBattle
  \/ DoAttack \/ DoAttackFlip \/ DoApiAttack \/ DoSurrender
  \/ DoRejectedAttack \/ DoAlertAnswered \/ DoApiRejectedAttack

SpecRefuse == Init /\ [][NextRefuse]_vars

\* battle with attacks through the bot and attacks through the HTTP API
\* whose thread is suspended after the checks
NextThreads ==
  \/ DoJoin \/ DoAutoPlace
  \/ DoReady \/ DoReadyContinue \/ DoStartBattle
  \/ DoAttack \/ DoAttackFlip \/ DoAttackEnd
  \/ DoApiAttackChecked \/ DoApiAttackResumed

SpecThreads == Init /\ [][NextThreads]_vars

\* sessions of every phase and age met by the rounds of cleanup_old_games
NextSweep ==
  \/ DoJoin \/ DoAutoPlace
  \/ DoReady \/ DoReadyContinue \/ DoStartBattle
  \/ DoSurrender \/ DoApiSurrender \/ DoEndGame
  \/ DoSweep \/ DoPasses

SpecSweep == Init /\ [][NextSweep]_vars

\* a session from the lobby to the end of the battle, until its snapshot is
\* requested
NextSnapshot ==
  \/ (call = NoCall /\ DoJoin)
  \/ (call = NoCall /\ DoAutoPlace)
  \/ (call = NoCall /\ DoReady)
  \/ (call = NoCall /\ DoReadyContinue)
  \/ (call = NoCall /\ DoStartBattle)
  \/ (call = NoCall /\ DoAttack)
  \/ (call = NoCall /\ DoAttackFlip)
  \/ (call = NoCall /\ DoSurrender)
  \/ (call = NoCall /\ DoApiSurrender)
  \/ DoGetState

SpecSnapshot == Init /\ [][NextSnapshot]_vars

\* placement until a place-ship request arrives through the HTTP API
NextApiPlace ==
  \/ (call = NoCall /\ DoJoin)
  \/ (call = NoCall /\ DoAutoPlace)
  \/ (call = NoCall /\ DoSetupCell)
  \/ DoApiPlaceShip

SpecApiPlace == Init /\ [][NextApiPlace]_vars

\* battle with the placement and mode buttons still pressed
NextLate ==
  \/ DoJoin \/ DoAutoPlace
  \/ DoReady \/ DoReadyContinue \/ DoStartBattle
  \/ DoLateMode \/ DoLateAutoPlace \/ DoLatePlacement
  \/ DoAttack \/ DoAttackFlip \/ DoAttackEnd

SpecLate == Init /\ [][NextLate]_vars

\* the lobby: joining through the bot and through the HTTP API, the mode
\* and timer buttons, auto placement and ready
NextLobby ==
  \/ DoJoin \/ DoApiJoin \/ DoMode \/ DoTimer \/ DoAutoPlace
  \/ DoReady \/ DoReadyContinue

SpecLobby == Init /\ [][NextLobby]_vars

\* getting ready: a session created in mode full, the mode buttons, auto
\* placement, removal of ships by a click, ready pressed at any moment
NextReady ==
  \/ DoJoin \/ DoMode \/ DoAutoPlace \/ DoSetupCell
  \/ DoReady \/ DoEarlyReady \/ DoAlertAnswered \/ DoReadyContinue

SpecReady == InitFull /\ [][NextReady]_vars

\* the second player joins, leaves and joins again around the start of
\* the battle
NextLeave ==
  \/ DoJoin \/ DoAutoPlace \/ DoSetupCell \/ DoLeaveQueue
  \/ DoReady \/ DoReadyContinue \/ DoStartBattle

SpecLeave == Init /\ [][NextLeave]_vars

\* a battle of aimed attacks through the bot in which the turn holder goes
\* on attacking: the attack and the continuations of its handler are taken
\* whenever they stay possible (the event loop resumes every suspended
\* handler); joining, leaving and every other button are up to the users
NextFairBattle ==
  \/ DoJoin \/ DoAutoPlace \/ DoLeaveQueue
  \/ DoReady \/ DoReadyContinue \/ DoStartBattle
  \/ DoAimedAttack \/ DoAttackFlip \/ DoAttackEnd \/ DoEndGame

\* an accepted aimed attack is possible: ENABLED <<DoAimedAttack>>_vars
\* written out (every attack that is not rejected spends one of the
\* explored attacks, so it changes the state)
CanAttack ==
  /\ used["aimed"] < MaxBattleAttacks
  /\ \E u \in Users :
        /\ get_game_by_user(u) # None
        /\ \E rc \in Targets(get_game_by_user(u)) :
              ~BotRejects(get_game_by_user(u), rc[1], rc[2])

\* weak fairness of the aimed attack, WF_vars(DoAimedAttack), with its
\* enabling condition written out
FairAttack == []<>(~CanAttack) \/ []<><<DoAimedAttack>>_vars

SpecFairBattle ==
  /\ InitFast
  /\ [][NextFairBattle]_vars
  /\ FairAttack
  /\ WF_vars(DoAttackFlip)
  /\ WF_vars(DoAttackEnd)
  /\ WF_vars(DoReadyContinue)
  /\ WF_vars(DoStartBattle)

\* the RoomManager under its callers, without the clock
NextRooms ==
  \/ DoRoomInit \/ DoCreateRoom \/ DoJoinRoom
  \/ DoSetReady \/ DoUpdateRoomStatus

SpecRooms == Init /\ [][NextRooms]_vars

\* create_room and cleanup_inactive_rooms under the clock
NextCleanup ==
  \/ DoRoomInit \/ DoGameAdded \/ DoCreateRoom
  \/ DoCleanupRooms \/ DoRoomClock

SpecCleanup == Init /\ [][NextCleanup]_vars

(***************************************************************************)
(* The functions of game_logic.py examined on their own: a call records    *)
(* its arguments and its answer.                                           *)
(***************************************************************************)
ProbeGrid == (0..(MaxProbeSize - 1)) \X (0..(MaxProbeSize - 1))

\* a classic board after place_ship(board, 0, 0, 3, True)
ScenarioBoard == place_ship(create_empty_board(GAME_MODES.classic.size), 0, 0, 3, TRUE).board

\* the boards handed to validate_ship_placement: every board of side
\* MaxProbeSize made of '🌊' and '🟥', and the classic board of the scenario
ProbeBoards == [ProbeGrid -> {Empty, Ship}] \cup {ScenarioBoard}

\* the side of a square board
Side(board) == CHOOSE n \in 0..10 : DOMAIN board = (0..(n - 1)) \X (0..(n - 1))

\* start coordinates tried on a board of side n: from one step before the
\* board to one step past the examined square, and the last row or column of
\* the board and the one after it
ProbeCoords(n) == (-1..(MaxProbeSize + 1)) \cup {n - 1, n}

\* validate_ship_placement(board, size, row, col, ship_size, horizontal) is
\* called on a board of side `size`
validate_call(board, row, col, ship_size, horizontal) ==
  /\ call' = [fn |-> "validate_ship_placement", board |-> board,
              size |-> Side(board), row |-> row, col |-> col,
              ship_size |-> ship_size, horizontal |-> horizontal,
              result |-> validate_ship_placement(board, Side(board), row, col,
                                                 ship_size, horizontal)]
  /\ UNCHANGED session_vars

\* one call is examined in a behaviour
DoValidate ==
  /\ call = NoCall
  /\ \E board \in ProbeBoards :
       \E row \in ProbeCoords(Side(board)), col \in ProbeCoords(Side(board)),
          ship_size \in 1..MaxProbeShip, horizontal \in BOOLEAN :
            validate_call(board, row, col, ship_size, horizontal)

NextValidate == DoValidate

SpecValidate == Init /\ [][NextValidate]_vars

\* auto_place_ships examined draw by draw.  random.shuffle yields one of
\* ProbeOrders, and the draws of one attempt (horizontal, row, col) come from
\* ProbeDraws: the places of the ships of that size in a known layout, and
\* the places up to MaxShift cells down and right of them, as far as
\* random.randint can return them for the ship (lines 121-127).
ProbeOrders(m) ==
  {get_ship_config(m).ships, Shuffle(get_ship_config(m).ships, 1, 0, 0)}

DrawOf(ship, k) ==
  [horizontal |-> Len(ship.cells) = 1 \/ ship.cells[1][1] = ship.cells[2][1],
   row |-> ship.cells[1][1] + k, col |-> ship.cells[1][2] + k]

\* the values randint(0, size - 1) and randint(0, size - ship_size) take
Drawable(d, size, ship_size) ==
  IF d.horizontal THEN d.row \in 0..(size - 1) /\ d.col \in 0..(size - ship_size)
                  ELSE d.row \in 0..(size - ship_size) /\ d.col \in 0..(size - 1)

ProbeDraws(m, ship_size) ==
  LET known == AutoLayouts[m, 0].ships
      all == {DrawOf(known[i], k) : i \in {j \in 1..Len(known) : known[j].size = ship_size},
                                    k \in 0..MaxShift}
  IN {d \in all : Drawable(d, get_ship_config(m).size, ship_size)}

ValidDraw(c, d) ==
  validate_ship_placement(c.board, get_ship_config(c.mode).size, d.row, d.col,
                          c.order[c.idx], d.horizontal) = "True"

\* lines 109-115 of a call at recursion depth `depth`
AutoStart(m, order, depth) ==
  [fn |-> "auto_place_ships", mode |-> m, order |-> order, idx |-> 1,
   board |-> create_empty_board(get_ship_config(m).size),
   ships |-> <<>>, depth |-> depth, result |-> [kind |-> "running"]]

AutoRunning ==
  /\ call.fn = "auto_place_ships"
  /\ call.result.kind = "running"

auto_place_called(m, order) ==
  /\ call = NoCall
  /\ call' = AutoStart(m, order, 0)
  /\ UNCHANGED session_vars

\* the while loop of lines 120-137 ending with the ship placed by the draw
\* d, at the first attempt or after attempts that drew refused places
auto_ship_placed(d) ==
  /\ AutoRunning
  /\ call.idx <= Len(call.order)
  /\ d \in ProbeDraws(call.mode, call.order[call.idx])
  /\ ValidDraw(call, d)
  /\ LET placed == place_ship(call.board, d.row, d.col, call.order[call.idx],
                              d.horizontal)
     IN call' = [call EXCEPT !.board = placed.board,
                             !.ships = Append(@, NewShip(call.order[call.idx],
                                                         placed.cells)),
                             !.idx = @ + 1]
  /\ UNCHANGED session_vars

\* the while loop ending after 100 refused draws, and lines 139-141: the
\* function calls itself, which fails with RecursionError when the
\* recursion limit is reached
auto_ship_not_placed(order) ==
  /\ AutoRunning
  /\ call.idx <= Len(call.order)
  /\ \E e \in ProbeDraws(call.mode, call.order[call.idx]) : ~ValidDraw(call, e)
  /\ call' = IF call.depth < MaxDepth
               THEN AutoStart(call.mode, order, call.depth + 1)
               ELSE [call EXCEPT !.result = [kind |-> "RecursionError"]]
  /\ UNCHANGED session_vars

\* line 143
auto_place_returned ==
  /\ AutoRunning
  /\ call.idx > Len(call.order)
  /\ call' = [call EXCEPT !.result = [kind |-> "returned", board |-> call.board,
                                      ships |-> call.ships]]
  /\ UNCHANGED session_vars

DoAutoCalled ==
  \E m \in Modes : \E order \in ProbeOrders(m) : auto_place_called(m, order)
DoAutoShipPlaced ==
  /\ AutoRunning
  /\ call.idx <= Len(call.order)
  /\ \E d \in ProbeDraws(call.mode, call.order[call.idx]) : auto_ship_placed(d)
DoAutoShipNotPlaced ==
  /\ AutoRunning
  /\ \E order \in ProbeOrders(call.mode) : auto_ship_not_placed(order)
DoAutoReturned == auto_place_returned

NextAuto ==
  \/ DoAutoCalled \/ DoAutoShipPlaced \/ DoAutoShipNotPlaced \/ DoAutoReturned

SpecAuto == Init /\ [][NextAuto]_vars

(***************************************************************************)
(* Properties.                                                             *)
(***************************************************************************)
\* two cells are the same cell or 8-neighbours
Touch(a, b) ==
  /\ a[1] - b[1] \in {-1, 0, 1}
  /\ a[2] - b[2] \in {-1, 0, 1}

\* an accepted attack happens in this step
AttackStep == last_attack'.n = last_attack.n + 1

\* the in-bounds 8-neighbours of the cells of a ship that are not its cells
Around(cells, size) ==
  {nb \in SeqToSet(NeighbourProbes(cells, size)) : nb \notin SeqToSet(cells)}

\* the attack <<attacker, row, col>> accepted in this step treats ship i of
\* the defender as C10 says
SunkOrNot(t, i) ==
  LET def == OtherId(t[1])
      cells == players[def].ships[i].cells
      board == players'[def].board
      attacks == players'[t[1]].attacks
      size == get_ship_config(mode).size
  IN IF \A c \in SeqToSet(cells) : At(board, c) \in {Hit, Sunk}
     THEN /\ last_attack'.kind = "sunk" /\ last_attack'.ship = i
          /\ players'[def].ships[i].destroyed
          /\ \A c \in SeqToSet(cells) : At(board, c) = Sunk /\ At(attacks, c) = Sunk
          /\ \A nb \in Around(cells, size) :
                At(board, nb) # Empty /\ At(attacks, nb) # Empty
     ELSE /\ last_attack'.ship # i
          /\ ~players'[def].ships[i].destroyed

\* C1: in every reachable state, no two distinct ships of a player's fleet
\* share a cell or have cells that are 8-neighbours of each other
C1_FleetsKeepDistance ==
  \A pid \in PlayerIds :
    \A i, j \in 1..Len(players[pid].ships) :
      i # j =>
        \A a \in SeqToSet(players[pid].ships[i].cells),
           b \in SeqToSet(players[pid].ships[j].cells) : ~Touch(a, b)

\* C2: an accepted attack that misses passes the turn to the defender (at
\* once, or in the continuation of the handler that is still suspended); an
\* accepted attack that hits or sinks leaves the turn with the attacker
C2_TurnFollowsAttack ==
  [][AttackStep =>
       IF last_attack'.kind = "miss"
       THEN \/ current_player' = OtherId(last_attack'.by)
            \/ <<"flip", last_attack'.by>> \in pending'
       ELSE current_player' = last_attack'.by]_vars

\* C3: once an attack of an attacker on a cell has been accepted, no later
\* attack of the same attacker on the same cell is accepted
C3_NoCellAttackedTwice ==
  [][AttackStep => accepted' # accepted]_vars

\* every ship of a non-empty fleet carries the destroyed flag
FleetDestroyed(ships) ==
  /\ Len(ships) > 0
  /\ \A i \in 1..Len(ships) : ships[i].destroyed

\* C4 as stated: the winner is set if and only if every ship of the losing
\* player's fleet is destroyed
C4_WinnerIffFleetDestroyed ==
  \A pid \in PlayerIds :
     winner = OtherId(pid) <=> FleetDestroyed(players[pid].ships)

\* C4: an accepted attack makes the attacker the winner if and only if it
\* sinks a ship and leaves every ship of the defender's fleet destroyed; any
\* other accepted attack leaves the winner as it was
C4_AttackWinsIffFleetDestroyed ==
  [][AttackStep =>
       winner' = IF /\ last_attack'.kind = "sunk"
                    /\ FleetDestroyed(players'[OtherId(last_attack'.by)].ships)
                 THEN last_attack'.by ELSE winner]_vars

\* a session won by sinking the whole fleet of the opponent
C4_WonBySinking ==
  /\ winner \in PlayerIds
  /\ surrendered = None
  /\ finish.cause = "sinking"
  /\ last_attack.by = winner /\ last_attack.kind = "sunk"
  /\ Len(players[OtherId(winner)].ships) = Len(get_ship_config(mode).ships)
  /\ FleetDestroyed(players[OtherId(winner)].ships)

\* C5: once the session is finished (a winner or a surrender is recorded),
\* no attack is accepted
C5_NoAttackAfterFinish ==
  [][check_game_over => last_attack'.n = last_attack.n]_vars

\* C6: a surrender of player X in a session that is not finished records X
\* as the player who surrendered and X's opponent as the winner
C6_SurrenderRecordsPlayer ==
  [][(~check_game_over /\ finish'.cause = "surrender")
        => (surrendered' = finish'.who /\ winner' = OtherId(finish'.who))]_vars

\* C7: in a timed session in battle that is not finished, once the time
\* since the turn started has reached the per-turn limit of the mode, the
\* timer task is running and its next round finds the turn holder timed out
C7_TimeoutAtModeLimit ==
  (/\ in_games /\ is_timed /\ current_player # None /\ ~check_game_over
   /\ now - turn_start >= ModeTimeLimit(mode))
    => (timer_task /\ TimedOut)

\* C8: after an attack of player X was resolved as a miss, no further attack
\* of X is accepted before the opponent has held the turn
C8_NoAttackAfterOwnMiss ==
  [][AttackStep => last_attack'.by \notin owes]_vars

\* C9: once a timeout has finished the session, no attack is accepted
C9_NoAttackAfterTimeout ==
  [][finish.cause = "timeout" => last_attack'.n = last_attack.n]_vars

\* C10: the attack that hits the last un-hit cell of a ship reports that ship
\* as destroyed, turns all its cells to Sunk on the attacker's tracking grid
\* and the defender's board and leaves none of its in-bounds neighbours
\* Empty on either grid; an earlier hit on the ship reports it as not
\* destroyed
C10_LastHitSinksShip ==
  [][AttackStep /\ last_attack'.kind \in {"hit", "sunk"} =>
       \A t \in accepted' \ accepted :
         \A i \in 1..Len(players[OtherId(t[1])].ships) :
           <<t[2], t[3]>> \in SeqToSet(players[OtherId(t[1])].ships[i].cells)
             => SunkOrNot(t, i)]_vars

\* the cells a ship of ship_size cells starting at (row, col) would cover
Covered(row, col, ship_size, horizontal) ==
  {<<row + (IF horizontal THEN 0 ELSE k), col + (IF horizontal THEN k ELSE 0)>> :
     k \in 0..(ship_size - 1)}

\* the placement rule: every cell of the ship lies on the board, none of them
\* is a Ship cell and no cell of the board that touches one of them is a
\* Ship cell
CanPlace(board, row, col, ship_size, horizontal) ==
  LET cells == Covered(row, col, ship_size, horizontal)
  IN /\ cells \subseteq DOMAIN board
     /\ \A c \in cells : board[c] # Ship
     /\ \A c \in cells, nb \in DOMAIN board : Touch(c, nb) => board[nb] # Ship

\* C11: validate_ship_placement answers True if and only if all cells of the
\* ship lie inside the grid, none of them is a Ship cell and no in-bounds
\* 8-neighbour of any of them is a Ship cell, for every start cell (negative
\* and out-of-range ones included) and both orientations; beside the size-3
\* ship on (0,0),(0,1),(0,2) every ship starting at (0,3) is rejected
C11_ValidateIffPlaceable ==
  call.fn = "validate_ship_placement" =>
    /\ call.result \in {"True", "False"}
    /\ call.result = "True" <=>
          CanPlace(call.board, call.row, call.col, call.ship_size, call.horizontal)
    /\ (call.board = ScenarioBoard /\ call.row = 0 /\ call.col = 3)
          => call.result = "False"

\* a ship starting at (0,4) is accepted beside the size-3 ship on
\* (0,0),(0,1),(0,2)
C11_AcceptedOneColumnApart ==
  /\ call.fn = "validate_ship_placement"
  /\ call.board = ScenarioBoard
  /\ call.row = 0 /\ call.col = 4
  /\ call.result = "True"

\* the sizes of the fleet are, with their multiplicities, those of the mode
ExactFleet(m, ships) ==
  \A n \in 0..10 : Count(Sizes(ships), n) = Count(get_ship_config(m).ships, n)

\* C12: a ready request is accepted, and marks the player ready, if and only
\* if the player's fleet has exactly the mode's multiset of ship sizes; the
\* request of a player with any other fleet is answered with an alert and
\* changes no player, and nothing else sets a ready flag
C12_ReadyIffExactFleet ==
  [][\A pid \in PlayerIds :
       /\ players'[pid].ready # players[pid].ready =>
             /\ players'[pid].ready
             /\ ExactFleet(mode, players[pid].ships)
             /\ <<"ready", "check">> \in pending'
       /\ (<<"alert", pid>> \in pending' \ pending) =>
             /\ ~ExactFleet(mode, players[pid].ships)
             /\ players' = players
       /\ (<<"ready", "check">> \in pending' \ pending) =>
             \E q \in PlayerIds :
                ExactFleet(mode, players[q].ships) /\ players'[q].ready]_vars

\* a player is ready with the classic fleet, and the request of a player
\* whose fleet has the right number of ships of the wrong sizes was rejected
C12_ReadyAndRejected ==
  \E pid \in PlayerIds :
     /\ players[pid].ready
     /\ ExactFleet(mode, players[pid].ships)
     /\ <<"alert", OtherId(pid)>> \in pending
     /\ Len(players[OtherId(pid)].ships) = Len(get_ship_config(mode).ships)
     /\ ~ExactFleet(mode, players[OtherId(pid)].ships)
     /\ ~players[OtherId(pid)].ready

\* C13: a join never changes an occupied second slot, the player who takes
\* the free second slot is not the creator, and that player starts with an
\* empty board and an empty tracking grid of the mode's size
C13_JoinTakesFreeSlotOnly ==
  [][/\ players["p2"].present =>
          /\ players'["p2"].present
          /\ players'["p2"].user_id = players["p2"].user_id
     /\ (~players["p2"].present /\ players'["p2"].present) =>
          /\ players'["p2"].user_id # players["p1"].user_id
          /\ players'["p2"] =
                NewPlayer(players'["p2"].user_id, get_ship_config(mode).size)
          /\ players'["p1"] = players["p1"]]_vars

\* a mode, timer or placement button is pressed in this step, in a session
\* whose turn pointer is set
LateStep == current_player # None /\ used'.late = used.late + 1

\* C14: once the session is in Battle, a placement operation (place ship,
\* removal of a ship by a click, reset of the placement, auto placement, mode
\* selection) of either player leaves the boards, fleets and tracking grids
\* of both players unchanged
C14_NoPlacementInBattle ==
  [][LateStep =>
       \A pid \in PlayerIds :
          /\ players'[pid].board = players[pid].board
          /\ players'[pid].ships = players[pid].ships
          /\ players'[pid].attacks = players[pid].attacks]_vars

\* start_battle runs in this step
StartStep ==
  /\ <<"start_battle", "run">> \in pending
  /\ <<"start_battle", "run">> \notin pending'

\* C15: in a session that is in Battle no ready request is accepted (none
\* reaches the test that starts the battle), and the battle is not started
\* again: the turn pointer, the time the turn started and the timer task
\* stay as they are
C15_NoSecondStart ==
  [][current_player # None =>
       /\ <<"ready", "check">> \notin pending' \ pending
       /\ ~StartStep]_vars

\* an attack request is answered with an error in this step
RefusedStep ==
  /\ used'.attacks = used.attacks + 1
  /\ last_attack'.n = last_attack.n

\* C16: an attack that is answered with an error (outside the board, cell
\* already attacked, not the caller's turn, session over or not in battle)
\* leaves the session as it was: both boards, tracking grids and fleets and
\* the last-shot markers, the turn pointer, the winner, the surrender and
\* the turn clock
C16_RefusedAttackChangesNothing ==
  [][RefusedStep => UNCHANGED game_vars]_vars

\* the turn holder of a running battle has made an accepted attack and an
\* attack that was answered with an alert
C16_AttackRefused ==
  \E pid \in PlayerIds :
     /\ <<"alert", pid>> \in pending
     /\ current_player = pid /\ ~check_game_over
     /\ used.attacks = 2
     /\ last_attack.n = 1 /\ last_attack.by = pid /\ last_attack.kind # "miss"

\* C17: every accepted attack is made by the player the turn pointer
\* designates at the moment the attack is applied
C17_AttackByTurnHolder ==
  [][AttackStep => last_attack'.by = current_player]_vars

\* the cells of the ship are in-bounds cells in one row or one column, each
\* one step after the one before, and as many as the ship's size
StraightRun(ship, size) ==
  /\ Len(ship.cells) = ship.size
  /\ \A i \in 1..Len(ship.cells) :
       /\ ship.cells[i][1] \in 0..(size - 1)
       /\ ship.cells[i][2] \in 0..(size - 1)
  /\ \/ \A i \in 2..Len(ship.cells) :
          /\ ship.cells[i][1] = ship.cells[1][1]
          /\ ship.cells[i][2] = ship.cells[i - 1][2] + 1
     \/ \A i \in 2..Len(ship.cells) :
          /\ ship.cells[i][2] = ship.cells[1][2]
          /\ ship.cells[i][1] = ship.cells[i - 1][1] + 1

\* C18: whenever auto_place_ships returns, in mode classic, fast or full,
\* the returned fleet has exactly the mode's multiset of ship sizes, every
\* ship is a straight run of in-bounds cells of its size, no two ships touch
\* (8-neighbourhood), and the Ship cells of the returned board are exactly
\* the cells of the returned fleet
C18_AutoPlacedFleetWellFormed ==
  (call.fn = "auto_place_ships" /\ call.result.kind = "returned") =>
    LET size  == get_ship_config(call.mode).size
        ships == call.result.ships
        board == call.result.board
    IN /\ ExactFleet(call.mode, ships)
       /\ \A i \in 1..Len(ships) : StraightRun(ships[i], size)
       /\ \A i, j \in 1..Len(ships) :
            i # j => \A a \in SeqToSet(ships[i].cells),
                        b \in SeqToSet(ships[j].cells) : ~Touch(a, b)
       /\ DOMAIN board = (0..(size - 1)) \X (0..(size - 1))
       /\ {rc \in DOMAIN board : board[rc] = Ship} = SeqToSet(FleetCells(ships))

\* a call in mode full that failed to place a ship, called itself and
\* returned a fleet in which a ship lies one cell down and right of its
\* place in the known layout
C18_ReturnedAfterRestart ==
  /\ call.fn = "auto_place_ships"
  /\ call.mode = "full"
  /\ call.depth >= 1
  /\ call.result.kind = "returned"
  /\ SeqToSet(FleetCells(call.result.ships))
       # SeqToSet(FleetCells(AutoLayouts["full", 0].ships))

\* C19: every call of auto_place_ships ends, and it ends either with a
\* fleet or, when no restart is left, with a PlacementExhausted error
C19_EndsPlacedOrExhausted ==
  call.fn = "auto_place_ships" =>
    call.result.kind \in {"running", "returned", "PlacementExhausted"}

\* C20: in every state of a timed session in battle, the per-turn limit the
\* timer task compares the elapsed time with is 60 seconds if the mode of
\* the session is fast and 120 seconds otherwise
C20_LimitFollowsMode ==
  (in_games /\ is_timed /\ current_player # None /\ ~check_game_over)
    => time_limit = ModeTimeLimit(mode)

\* a round of cleanup_old_games happens in this step
SweepStep == used'.sweeps = used.sweeps + 1

\* the session is actively in battle
ActiveBattle == current_player # None /\ winner = None /\ surrendered = None

\* C21: a sweep never removes a session that is actively in battle (turn
\* pointer set, no winner, no surrender), whatever its age
C21_SweepKeepsActiveBattle ==
  [][(SweepStep /\ ActiveBattle) => in_games']_vars

\* a battle older than 24 hours has been swept over and is still there
C21_OldBattleKept ==
  /\ in_games /\ ActiveBattle
  /\ now > SWEEP_DAY
  /\ used.sweeps >= 1

\* C22: a sweep removes every session created more than 24 hours ago, in
\* whatever phase, unless it is actively in battle with no winner and no
\* surrender
C22_SweepRemovesDayOld ==
  [][(SweepStep /\ now > SWEEP_DAY /\ ~ActiveBattle) => ~in_games']_vars

Moved(game, pid, a, b) ==
  LET p == game.players[pid]
      swap(c) == IF c = a THEN b ELSE c
  IN [game EXCEPT !.players[pid].board =
                     [rc \in DOMAIN p.board |->
                        IF rc = a THEN Empty ELSE IF rc = b THEN Ship ELSE p.board[rc]],
                  !.players[pid].ships =
                     [i \in 1..Len(p.ships) |->
                        [p.ships[i] EXCEPT !.cells =
                           [k \in 1..Len(p.ships[i].cells) |-> swap(p.ships[i].cells[k])]]]]

\* C24: the snapshot produced for a player is the same in two states of the
\* session that differ only in where the ship cells of the opponent that
\* were not hit are; the entry of the opponent holds the number of remaining
\* ships, the identity and the ready flag and neither a board, nor ship
\* cells, nor a tracking grid
C24_SnapshotHidesOpponentFleet ==
  call.fn = "serialize_game_state" =>
    LET opp == OtherId(call.player_id)
        board == call.game.players[opp].board
    IN /\ DOMAIN call.result.players.opponent = {"user_id", "ships_remaining", "ready"}
       /\ \A a \in DOMAIN board, b \in ClickCoords \X ClickCoords :
            (board[a] = Ship /\ board[b] = Empty) =>
               serialize_game_state(Moved(call.game, opp, a, b), call.player_id)
                  = call.result

\* a snapshot taken in battle for a player whose opponent has ship cells that
\* were hit, ship cells that were not hit and a free cell to move one to
C24_SnapshotInBattle ==
  /\ call.fn = "serialize_game_state"
  /\ call.result.phase = "battle"
  /\ call.game.current_player # None
  /\ LET board == call.game.players[OtherId(call.player_id)].board
     IN /\ \E a \in DOMAIN board : board[a] = Ship
        /\ \E a \in DOMAIN board : board[a] \in {Hit, Sunk}
        /\ \E b \in ClickCoords \X ClickCoords : board[b] = Empty

\* C30: the phase reported in a snapshot is finished whenever the session
\* has a winner or a recorded surrender; otherwise it is battle while both
\* players are present and ready, setup while both are present and not both
\* ready, and lobby while the second player is absent
C30_SnapshotPhaseFollowsSession ==
  call.fn = "serialize_game_state" =>
    LET g == call.game
    IN call.result.phase =
         IF g.winner # None \/ g.surrendered # None THEN "finished"
         ELSE IF ~g.players["p2"].present THEN "lobby"
         ELSE IF g.players["p1"].ready /\ g.players["p2"].ready THEN "battle"
         ELSE "setup"

\* the moves of one cell of the tracking grid of player pid in one step: the
\* cell stays, or goes from Empty to Hit or Miss, or from Hit to Sunk; the
\* cell attacked in this step may go from Empty over Hit to Sunk
TrackingMove(pid, rc) ==
  LET old == players[pid].attacks[rc]
      new == players'[pid].attacks[rc]
  IN /\ new # Ship
     /\ \/ new = old
        \/ old = Empty /\ new \in {Hit, Miss}
        \/ old = Hit /\ new = Sunk
        \/ /\ old = Empty /\ new = Sunk
           /\ <<pid, rc[1], rc[2]>> \in accepted' \ accepted

\* C25: each cell of a player's tracking grid only ever moves from Empty to
\* Hit or to Miss and from Hit to Sunk: it never returns to Empty, never
\* changes between Miss and Hit or Sunk, never becomes Sunk without having
\* been hit and never holds Ship
C25_TrackingGridMonotone ==
  [][\A pid \in PlayerIds :
       \A rc \in DOMAIN players[pid].attacks \cap DOMAIN players'[pid].attacks :
          TrackingMove(pid, rc)]_vars

\* C26: a place-ship request through the HTTP endpoint, made in setup for a
\* size the player's fleet still misses, whose placement is in bounds and
\* touches no other ship, is answered with the snapshot (status 200) and
\* adds the ship to the board and to the fleet of the requesting player
C26_ApiPlacesValidShip ==
  (call.fn = "api_place_ship"
     /\ call.game.players["p2"].present
     /\ call.game.current_player = None
     /\ Count(Sizes(call.game.players[call.player_id].ships), call.size)
          < Count(get_ship_config(call.game.mode).ships, call.size)
     /\ CanPlace(call.game.players[call.player_id].board, call.row, call.col,
                 call.size, call.horizontal))
    => /\ call.status = 200
       /\ players[call.player_id].ships
            = Append(call.game.players[call.player_id].ships,
                     NewShip(call.size, ShipCells(call.row, call.col, call.size,
                                                  call.horizontal)))
       /\ \A rc \in Covered(call.row, call.col, call.size, call.horizontal) :
            players[call.player_id].board[rc] = Ship

\* a manual placement button or a click on the own board is handled in this
\* step
ManualStep == used'.manual = used.manual + 1

\* of every size the fleet holds at most as many ships as the configuration
\* of the mode
WithinConfiguration(m, ships) ==
  \A n \in 0..10 : Count(Sizes(ships), n) <= Count(get_ship_config(m).ships, n)

\* C27: a manual placement is not accepted from a player whose fleet holds
\* as many ships as the configuration of the mode, an accepted one adds a
\* ship of the first size in configuration order that is still missing, and
\* after every manual placement or removal the sizes of the fleet are a
\* sub-multiset of the configured sizes
C27_ManualFleetWithinConfiguration ==
  [][ManualStep =>
       \A pid \in PlayerIds :
         LET before == players[pid].ships
             after  == players'[pid].ships
         IN /\ Len(after) > Len(before) =>
                 /\ Len(before) < Len(get_ship_config(mode).ships)
                 /\ Sizes(after) = Append(Sizes(before), NextShipSize(mode, before))
            /\ WithinConfiguration(mode', after)]_vars

\* the cell lists of the fleet of a player
CellLists(p) == [i \in 1..Len(p.ships) |-> p.ships[i].cells]

\* C28: an accepted attack that does not sink a ship changes, among the
\* grids and fleets, exactly two cells: the attacked cell on the attacker's
\* tracking grid and the same cell on the defender's board, both Hit if the
\* board cell was Ship and both Miss otherwise; the attacker's board, the
\* defender's tracking grid, every other cell and the cell lists of both
\* fleets are unchanged
C28_AttackChangesTwoCells ==
  [][(AttackStep /\ last_attack'.kind \in {"hit", "miss"}) =>
       \E rc \in DOMAIN players[last_attack'.by].attacks :
         LET att  == last_attack'.by
             def  == OtherId(last_attack'.by)
             mark == IF players[def].board[rc] = Ship THEN Hit ELSE Miss
         IN /\ rc \in DOMAIN players[def].board
            /\ players[att].attacks[rc] # mark
            /\ players[def].board[rc] # mark
            /\ players'[att].attacks = [players[att].attacks EXCEPT ![rc] = mark]
            /\ players'[def].board = [players[def].board EXCEPT ![rc] = mark]
            /\ players'[att].board = players[att].board
            /\ players'[def].attacks = players[def].attacks
            /\ CellLists(players'[att]) = CellLists(players[att])
            /\ CellLists(players'[def]) = CellLists(players[def])]_vars

\* the cells of a ship that have been hit on its owner's board
HitCells(p, s) ==
  {rc \in SeqToSet(s.cells) \cap DOMAIN p.board : p.board[rc] \in {Hit, Sunk}}

\* the cells of a ship shown as Sunk on its owner's board
SunkCells(p, s) ==
  {rc \in SeqToSet(s.cells) \cap DOMAIN p.board : p.board[rc] = Sunk}

\* C29: in every reachable state a ship's destroyed flag is true exactly
\* when every one of its cells has been hit, and on its owner's board the
\* cells of a ship are all Sunk when the flag is true and none is Sunk
\* when it is false
C29_DestroyedIffAllCellsHit ==
  \A pid \in PlayerIds :
    players[pid].present =>
      \A i \in DOMAIN players[pid].ships :
        LET p == players[pid]
            s == p.ships[i]
        IN /\ s.destroyed <=> HitCells(p, s) = SeqToSet(s.cells)
           /\ IF s.destroyed
                THEN SunkCells(p, s) = SeqToSet(s.cells)
                ELSE SunkCells(p, s) = {}

\* a step that is a call of join_room
JoinStep == call'.fn = "join_room" /\ call' # call

\* the caller of the recorded join_room is the creator or the joiner of the room
JoinByMember(room, tg_id) ==
  \/ room.creator.tgId = tg_id
  \/ room.joiner.present /\ room.joiner.tgId = tg_id

\* join_room adds the caller as joiner exactly to an existing WAITING room
\* without joiner whose creator is someone else, never touches another room
\* and never replaces a joiner
JoinAddsOnlyToOpenRoom ==
  LET code  == Normalize(call'.room_code)
      tg_id == call'.player_tg_id
  IN /\ DOMAIN rooms' = DOMAIN rooms
     /\ \A c \in DOMAIN rooms \ {code} : rooms'[c] = rooms[c]
     /\ code \in DOMAIN rooms =>
          /\ rooms[code].joiner.present =>
                rooms'[code].joiner = rooms[code].joiner
          /\ IF /\ rooms[code].status = "WAITING"
                /\ ~rooms[code].joiner.present
                /\ rooms[code].creator.tgId # tg_id
               THEN /\ rooms'[code] =
                         [rooms[code] EXCEPT
                            !.joiner = NewJoiner(tg_id, UsernameOf(tg_id)),
                            !.lastActivityAt = now]
                    /\ call'.result.kind = "data"
                    /\ call'.result.data = get_room_data(rooms'[code])
               ELSE rooms'[code] = rooms[code]

\* C31 as stated: join_room adds a joiner only to an existing WAITING room
\* without joiner and only for a caller who is not the creator, never
\* replaces a joiner, and a join by the creator or a repeated join by the
\* joiner returns the room data without changing the room
C31_JoinByMemberReturnsData ==
  [][JoinStep =>
       LET code  == Normalize(call'.room_code)
           tg_id == call'.player_tg_id
       IN /\ JoinAddsOnlyToOpenRoom
          /\ (code \in DOMAIN rooms /\ JoinByMember(rooms[code], tg_id)) =>
               /\ rooms' = rooms
               /\ call'.result.kind = "data"
               /\ call'.result.data = get_room_data(rooms[code])]_vars

\* C31, amended: as above, but a join by the creator or a repeated join by
\* the joiner returns the room data only while the room is WAITING; in a
\* room that is PLAYING or FINISHED it returns None; in both cases the
\* room is unchanged
C31_JoinByMemberWhileWaiting ==
  [][JoinStep =>
       LET code  == Normalize(call'.room_code)
           tg_id == call'.player_tg_id
       IN /\ JoinAddsOnlyToOpenRoom
          /\ code \notin DOMAIN rooms => call'.result.kind = None
          /\ (code \in DOMAIN rooms /\ JoinByMember(rooms[code], tg_id)) =>
               /\ rooms' = rooms
               /\ IF rooms[code].status = "WAITING"
                    THEN /\ call'.result.kind = "data"
                         /\ call'.result.data = get_room_data(rooms[code])
                    ELSE call'.result.kind = None]_vars

\* the joiner of a room that is PLAYING joined again and got None
C31_RepeatedJoinAfterStart ==
  /\ call.fn = "join_room"
  /\ Normalize(call.room_code) \in DOMAIN rooms
  /\ LET room == rooms[Normalize(call.room_code)]
     IN /\ room.status = "PLAYING"
        /\ room.joiner.present
        /\ room.joiner.tgId = call.player_tg_id
        /\ call.result.kind = None

\* a step that is a call of cleanup_inactive_rooms
CleanupStep == call'.fn = "cleanup_inactive_rooms" /\ call' # call

\* the rooms whose last activity is more than 30 minutes old
Inactive ==
  {code \in DOMAIN rooms : rooms[code].lastActivityAt + INACTIVE_TIMEOUT < now}

\* room_by_game_id maps a game id to a room code exactly when that room is
\* in rooms under that game id
RoomIndexMatches ==
  /\ \A g \in DOMAIN room_by_game_id :
        /\ room_by_game_id[g] \in DOMAIN rooms
        /\ rooms[room_by_game_id[g]].gameId = g
  /\ \A code \in DOMAIN rooms :
        /\ rooms[code].gameId \in DOMAIN room_by_game_id
        /\ room_by_game_id[rooms[code].gameId] = code

\* C32: cleanup_inactive_rooms removes exactly the rooms whose last
\* activity is more than 30 minutes old, each with its room_by_game_id
\* entry and its game in the game manager, and leaves every other room as
\* it was; under create_room and cleanup calls room_by_game_id maps a game
\* id to a room code if and only if that room is in rooms
C32_CleanupRemovesInactiveRooms ==
  /\ []RoomIndexMatches
  /\ [][CleanupStep =>
          LET games == {rooms[code].gameId : code \in Inactive}
          IN /\ DOMAIN rooms' = DOMAIN rooms \ Inactive
             /\ \A code \in DOMAIN rooms' : rooms'[code] = rooms[code]
             /\ DOMAIN room_by_game_id' = DOMAIN room_by_game_id \ games
             /\ \A g \in DOMAIN room_by_game_id' :
                   room_by_game_id'[g] = room_by_game_id[g]
             /\ game_manager'.given = game_manager.given
             /\ game_manager'.keys = game_manager.keys \ games]_vars

\* a cleanup removed one room with its game and kept a room that has been
\* inactive for exactly 30 minutes
C32_OneRoomCleaned ==
  /\ call.fn = "cleanup_inactive_rooms"
  /\ call.cleaned = 1
  /\ call.at = now
  /\ \E code \in DOMAIN rooms :
        rooms[code].lastActivityAt + INACTIVE_TIMEOUT = now
  /\ \E code \in RoomCodes \ DOMAIN rooms : code \notin game_manager.keys
  /\ game_manager.keys \cap DOMAIN rooms # {}

\* the tracking cell t of the attacker agrees with the board cell b of the
\* defender
Mirrors(t, b) ==
  /\ (t \in {Miss, Hit, Sunk} \/ b \in {Miss, Hit, Sunk}) => b = t
  /\ t = Empty <=> b \in {Empty, Ship}

\* C33: in every Battle or Finished state and for each attacker/defender
\* pair, the attacker's tracking grid mirrors the defender's board: a
\* tracking cell is Miss, Hit or Sunk exactly when the board cell holds the
\* same state, and Empty exactly when the board cell is Empty or Ship
C33_TrackingMirrorsBoard ==
  (current_player # None \/ winner # None) =>
    \A att \in PlayerIds :
      (players[att].present /\ players[OtherId(att)].present) =>
        \A rc \in DOMAIN players[att].attacks
                  \cap DOMAIN players[OtherId(att)].board :
          Mirrors(players[att].attacks[rc], players[OtherId(att)].board[rc])

\* the ships of a fleet that hold the cell
ShipsOn(ships, rc) == {i \in DOMAIN ships : rc \in SeqToSet(ships[i].cells)}

\* C34: in every reachable state and for each player, the board and the
\* fleet agree: a board cell is Ship, Hit or Sunk if and only if it belongs
\* to the cell list of exactly one ship of the player's fleet
C34_BoardAgreesWithFleet ==
  \A pid \in PlayerIds :
    players[pid].present =>
      /\ \A rc \in DOMAIN players[pid].board :
            players[pid].board[rc] \in {Ship, Hit, Sunk}
              <=> Cardinality(ShipsOn(players[pid].ships, rc)) = 1
      /\ \A i \in DOMAIN players[pid].ships :
            SeqToSet(players[pid].ships[i].cells) \subseteq
              DOMAIN players[pid].board

\* the coordinates of an N x N grid
Square(n) == (0..(n - 1)) \X (0..(n - 1))

\* C35: in every reachable state each present player's board and tracking
\* grid are N x N, N the grid size of the session's current mode, for both
\* players, also after the creator changed the mode with the second player
\* already in the session
C35_GridsHaveModeSize ==
  \A pid \in PlayerIds :
    players[pid].present =>
      /\ DOMAIN players[pid].board = Square(get_ship_config(mode).size)
      /\ DOMAIN players[pid].attacks = Square(get_ship_config(mode).size)

\* C36: once the winner of a session is set, the winner and the
\* surrendered field never change again, whatever attack, surrender or
\* timer check of either transport follows
C36_WinnerIsFinal ==
  [][winner # None => (winner' = winner /\ surrendered' = surrendered)]_vars

\* C37: in every reachable state, if the turn pointer is set then both
\* players are present and both are ready (so the second player has not
\* left the session after the turn pointer was set)
C37_TurnNeedsBothReady ==
  current_player # None =>
    \A pid \in PlayerIds : players[pid].present /\ players[pid].ready

\* C38: in every state in which the session is in Battle, each player's
\* fleet has exactly the mode's multiset of ship sizes (a player marked
\* ready does not reach Battle with a fleet changed afterwards)
C38_BattleFleetsComplete ==
  (current_player # None /\ winner = None /\ surrendered = None) =>
    \A pid \in PlayerIds :
      players[pid].present => ExactFleet(mode, players[pid].ships)

\* the cells of a tracking grid still Empty
EmptyCells(attacks) == {rc \in DOMAIN attacks : attacks[rc] = Empty}

\* the explored number of aimed attacks is used up
AttacksExplored == used.aimed = MaxBattleAttacks

\* C39: a battle cannot run forever: every accepted attack turns at least
\* one Empty cell of the attacker's tracking grid into a non-Empty one, a
\* player whose tracking grid has no Empty cell has sunk the whole opposing
\* fleet, and with the turn holder attacking whenever an accepted attack
\* is possible every session in Battle eventually has a winner (or has
\* used up the attacks explored here)
C39_BattleEventuallyWon ==
  /\ [][AttackStep =>
          \E rc \in EmptyCells(players[last_attack'.by].attacks) :
             rc \in DOMAIN players'[last_attack'.by].attacks
             /\ players'[last_attack'.by].attacks[rc] # Empty]_vars
  /\ [](\A pid \in PlayerIds :
          (/\ current_player # None
           /\ players[pid].present /\ players[OtherId(pid)].present
           /\ EmptyCells(players[pid].attacks) = {})
            => \A i \in DOMAIN players[OtherId(pid)].ships :
                  players[OtherId(pid)].ships[i].destroyed)
  /\ (current_player # None) ~> (winner # None \/ AttacksExplored)
=============================================================================
